---- MODULE Spec2Model ----
(***************************************************************************)
(* Verification model of the BaseballTrainer services:                     *)
(*   - pose-detection-service/services/object_tracker.py                   *)
(*       MultiObjectTracker, PersonTracker, BatTrackerAdvanced,            *)
(*       BallTrackerAdvanced                                               *)
(*   - blast-connector/services/swing_detection_service.py                 *)
(*       SwingDetector.feed, SwingDetectionService (threads per session)   *)
(*                                                                         *)
(* Numbers: boxes have integer corner coordinates; an IoU is kept as the   *)
(* exact fraction <<intersection, union>> and compared by cross            *)
(* multiplication; a confidence is an integer number of thousandths.       *)
(***************************************************************************)
EXTENDS Integers, Sequences, FiniteSets, TLC

VARIABLES
    \* ---- MultiObjectTracker (object_tracker.py) ----
    cfg,            \* constructor arguments: max_age, min_hits, iou_threshold, use_kalman, kind
    tracks,         \* self.tracks
    frame_count,    \* self.frame_count
    next_id,        \* self.next_id
    returned,       \* the list returned by the last update call
    last_dets,      \* the argument of the last update call
    assoc,          \* input and output of the last _associate_detections_to_trackers call
    assigned,       \* track ids handed out since construction / the last reset, in order
    \* ---- PersonTracker / BatTrackerAdvanced / BallTrackerAdvanced ----
    current_track,  \* self.current_person_track / current_bat_track / current_ball_track
    wresult,        \* the value returned by the wrapper's last update call
    winput,         \* the argument of the wrapper's last update call
    wcalls,         \* number of wrapper update calls made
    \* ---- SwingDetector (swing_detection_service.py) ----
    det_state,      \* self.state: "idle" or "in_swing"
    t_start,        \* self.t_start, <<>> for None
    peak,           \* self.peak: <<t, omega squared>>, <<>> for None
    sr_tick,        \* self.sr_tick, the timestamps of the last samples
    events,         \* the swing data passed to on_swing_detected, in order
    now,            \* the timestamp of the last sample
    nsamples,       \* number of samples fed
    swing_samples,  \* history: the samples <<t, omega squared>> of the last swing so far
    \* ---- SwingDetectionService (swing_detection_service.py) ----
    active_sessions,\* self.active_sessions: session id -> <<>> or <<entry>>
    threads,        \* the detection threads started so far, in order
    debug_info,     \* self.debug_info: bat_connected and the number of swings
    api_result,     \* what the last start_detection / stop_detection call returned
    \* ---- SwingDetectionService, lock by lock ----
    procs,          \* the request threads and the detection threads
    lock,           \* self.lock: the set of threads holding it
    debug_lock,     \* self.debug_lock: the set of threads holding it
    ncalls,         \* number of calls the request threads have made
    \* ---- yolo_cache.py ----
    yolo_model_cache, \* the global _yolo_model_cache: an instance, 0 for None
    yolo_calls,     \* the calls of get_yolo_model made so far
    yolo_loads,     \* number of YOLO instances constructed
    yolo_clears,    \* number of clear_yolo_cache calls
    \* ---- ContactDetector (contact_detector.py) ----
    cd_input,       \* the arguments of the detect_contact call
    cd_result,      \* <<>>, then <<what detect_contact returned>>
    \* ---- VideoAnalyzer.analyze_video_from_path (video_analyzer.py) ----
    va_input,       \* the video and what the stages do, for the analyze_video_from_path call
    va_response,    \* <<>>, then <<the dict analyze_video_from_path returned>>
    \* ---- try_parse (swing_detection_service.py) ----
    tp_input,       \* the payload of the try_parse call, and the values packed into it
    tp_result,      \* <<>>, then <<what try_parse returned>>
    \* ---- SwingPhaseDetector (swing_phase_detector.py) ----
    ph_script,      \* the frames given to the detector, repeated in this order
    phase_history,  \* self.phase_history
    frame_metrics_history,\* self.frame_metrics_history
    ph_result,      \* <<>>, or the dict the last detect_phase call returned
    ph_log,         \* frame number, usability and returned phase of every call so far
    \* ---- FormErrorDetector and BiomechanicsAnalyzer ----
    fe_input,       \* the arguments of the detect_errors and analyze_biomechanics calls
    fe_result,      \* <<>>, then <<the dict detect_errors returned>>
    bm_result,      \* <<>>, then <<what analyze_biomechanics returned>>
    \* ---- DrillService.recommend_drills (drill_service.py) ----
    dr_input,       \* the collection and the arguments of the recommend_drills call
    dr_result,      \* <<>>, then <<the list recommend_drills returned>>
    \* ---- try_parse, payload by payload ----
    tp_tried,       \* the payload lengths try_parse has been called on
    tp_calls,       \* for each of these lengths, the format selected and the result
    \* ---- routes/queue.py, the job table and the worker ----
    _jobs,          \* _jobs: the status of the job under each id, or "absent"
    _q,             \* _q: the ids waiting for the worker
    _worker_started,\* _worker_started
    worker_pc,      \* where _worker_loop stands
    worker_job,     \* the id the worker took last
    req_pc,         \* where each request thread stands in queue_video
    req_job,        \* the job_id each request thread made
    clock,          \* what time.time_ns() reads
    nrequests,      \* history: calls of queue_video so far
    ntaken,         \* history: how many times the worker took each id
    nthreads,       \* history: worker threads started
    \* ---- tracking_coordinator.py, TrackingCoordinator ----
    coord,          \* the TrackingCoordinator: use_kalman, the three wrapper trackers, the length of frame_history
    twin,           \* a TrackingCoordinator constructed at the last reset
    coord_out,      \* person, bat and ball of the last update_frame result
    twin_out,       \* the same of the twin
    coord_calls,    \* history: update_frame calls so far
    coord_resets    \* history: reset calls so far

trackerVars == <<cfg, tracks, frame_count, next_id, returned, last_dets, assoc, assigned>>
wrapperVars == <<current_track, wresult, winput, wcalls>>
svcVars == <<active_sessions, threads, debug_info, api_result>>
swingVars == <<det_state, t_start, peak, sr_tick, events, now, nsamples, swing_samples>>
lockVars == <<procs, lock, debug_lock, ncalls>>
yoloVars == <<yolo_model_cache, yolo_calls, yolo_loads, yolo_clears>>
contactVars == <<cd_input, cd_result>>
analyzeVars == <<va_input, va_response>>
parseVars == <<tp_input, tp_result>>
phaseVars == <<ph_script, phase_history, frame_metrics_history, ph_result, ph_log>>
formVars == <<fe_input, fe_result, bm_result>>
drillVars == <<dr_input, dr_result>>
formatsVars == <<tp_tried, tp_calls>>
queueVars == <<_jobs, _q, _worker_started, worker_pc, worker_job, req_pc, req_job, clock, nrequests, ntaken, nthreads>>
coordVars == <<coord, twin, coord_out, twin_out, coord_calls, coord_resets>>
extVars == <<lockVars, yoloVars, contactVars, analyzeVars, parseVars, phaseVars, formVars, drillVars, formatsVars, queueVars, coordVars>>
notLock == <<threads, api_result, trackerVars, wrapperVars, swingVars, yoloVars, contactVars, analyzeVars, parseVars, phaseVars, formVars, drillVars, formatsVars, queueVars, coordVars>>
notYolo == <<trackerVars, wrapperVars, swingVars, svcVars, lockVars, contactVars, analyzeVars, parseVars, phaseVars, formVars, drillVars, formatsVars, queueVars, coordVars>>
notContact == <<trackerVars, wrapperVars, swingVars, svcVars, lockVars, yoloVars, analyzeVars, parseVars, phaseVars, formVars, drillVars, formatsVars, queueVars, coordVars>>
notAnalyze == <<trackerVars, wrapperVars, swingVars, svcVars, lockVars, yoloVars, contactVars, parseVars, phaseVars, formVars, drillVars, formatsVars, queueVars, coordVars>>
notParse == <<trackerVars, wrapperVars, swingVars, svcVars, lockVars, yoloVars, contactVars, analyzeVars, phaseVars, formVars, drillVars, formatsVars, queueVars, coordVars>>
notPhase == <<trackerVars, wrapperVars, swingVars, svcVars, lockVars, yoloVars, contactVars, analyzeVars, parseVars, formVars, drillVars, formatsVars, queueVars, coordVars>>
notForm == <<trackerVars, wrapperVars, swingVars, svcVars, lockVars, yoloVars, contactVars, analyzeVars, parseVars, phaseVars, drillVars, formatsVars, queueVars, coordVars>>
notDrill == <<trackerVars, wrapperVars, swingVars, svcVars, lockVars, yoloVars, contactVars, analyzeVars, parseVars, phaseVars, formVars, formatsVars, queueVars, coordVars>>
notFormats == <<trackerVars, wrapperVars, swingVars, svcVars, lockVars, yoloVars, contactVars, analyzeVars, parseVars, phaseVars, formVars, drillVars, queueVars, coordVars>>
notQueue == <<trackerVars, wrapperVars, swingVars, svcVars, lockVars, yoloVars, contactVars, analyzeVars, parseVars, phaseVars, formVars, drillVars, formatsVars, coordVars>>
notCoord == <<trackerVars, wrapperVars, swingVars, svcVars, lockVars, yoloVars, contactVars, analyzeVars, parseVars, phaseVars, formVars, drillVars, formatsVars, queueVars>>
vars == <<cfg, tracks, frame_count, next_id, returned, last_dets, assoc, assigned,
          current_track, wresult, winput, wcalls,
          det_state, t_start, peak, sr_tick, events, now, nsamples, swing_samples,
          active_sessions, threads, debug_info, api_result,
          procs, lock, debug_lock, ncalls, yolo_model_cache, yolo_calls,
          yolo_loads, yolo_clears, cd_input, cd_result, va_input,
          va_response, tp_input, tp_result, ph_script, phase_history,
          frame_metrics_history, ph_result, ph_log, fe_input, fe_result,
          bm_result, dr_input, dr_result, tp_tried, tp_calls, _jobs, _q,
          _worker_started, worker_pc, worker_job, req_pc, req_job, clock,
          nrequests, ntaken, nthreads, coord, twin, coord_out, twin_out,
          coord_calls, coord_resets>>

(***************************************************************************)
(* Bounds of the model                                                     *)
(***************************************************************************)
MaxFrames == 3      \* update calls on one MultiObjectTracker between resets
MaxDets == 2        \* detections in one update call
MaxWrapCalls == 6   \* update calls on one wrapper tracker
MaxLockCalls == 2   \* calls made by the request threads together
MaxLockIters == 1   \* passes of _main_loop one detection thread begins, lock by lock
MaxYoloCalls == 3   \* calls of get_yolo_model
MaxYoloClears == 1  \* calls of clear_yolo_cache
MaxAngles == 5      \* bat angles in one detect_contact call
MaxVideoFrames == 3 \* frames of one analysed video
MaxPhaseCalls == 32 \* detect_phase calls on one SwingPhaseDetector
MaxFormFrames == 4     \* frames of a detect_errors / analyze_biomechanics call
MaxDrills == 3         \* documents in the drills collection
MaxLimit == 2          \* the limit argument of recommend_drills
MaxPayload == 14       \* longest payload given to try_parse, in bytes
MaxClock == 2          \* readings of the clock: 0..MaxClock
MaxRequestThreads == 2 \* request threads running queue_video
MaxRequests == 3       \* calls of queue_video in one run
MaxCoordCalls == 4     \* update_frame calls on one TrackingCoordinator
MaxCoordResets == 1    \* reset calls on one TrackingCoordinator
MaxSamples == 4     \* samples fed to one SwingDetector
MaxThreads == 2     \* detection threads started in one run of the service
MaxIters == 2       \* loop iterations one detection thread begins
MaxSwings == 1      \* swings the detection threads report

(***************************************************************************)
(* Small helpers                                                           *)
(***************************************************************************)
Max2(a, b) == IF a >= b THEN a ELSE b
Min2(a, b) == IF a <= b THEN a ELSE b
Range(s) == {s[i] : i \in 1..Len(s)}
\* the element of a one-element set
Only(S) == CHOOSE x \in S : TRUE

RECURSIVE SeqOfSet(_)
\* an ascending list of a finite set of integers: list(range(n)) filtered
SeqOfSet(S) ==
    IF S = {} THEN <<>>
    ELSE LET m == CHOOSE x \in S : \A y \in S : x <= y
         IN <<m>> \o SeqOfSet(S \ {m})

(***************************************************************************)
(* Boxes [x1, y1, x2, y2] and detections                                   *)
(***************************************************************************)
BoxA == <<0, 0, 10, 10>>
BoxB == <<3, 0, 13, 10>>
BoxC == <<6, 0, 16, 10>>

Det(b, c, k) == [bbox |-> b, confidence |-> c, class |-> k]

\* detections offered to a MultiObjectTracker
DetPool == {Det(BoxA, 900, "obj"), Det(BoxB, 600, "obj"), Det(BoxC, 900, "obj")}

\* the lists a detector can hand over: at most MaxDets detections, each box
\* reported once
DetLists ==
    UNION {{l \in [1..n -> DetPool] : \A i, j \in 1..n : i /= j => l[i] /= l[j]} : n \in 0..MaxDets}

(***************************************************************************)
(* MultiObjectTracker._calculate_iou: <<intersection, union>>, <<0, 1>>    *)
(* standing for 0.0                                                        *)
(***************************************************************************)
_calculate_iou(bbox1, bbox2) ==
    LET x1_i == Max2(bbox1[1], bbox2[1])
        y1_i == Max2(bbox1[2], bbox2[2])
        x2_i == Min2(bbox1[3], bbox2[3])
        y2_i == Min2(bbox1[4], bbox2[4])
        intersection == (x2_i - x1_i) * (y2_i - y1_i)
        area1 == (bbox1[3] - bbox1[1]) * (bbox1[4] - bbox1[2])
        area2 == (bbox2[3] - bbox2[1]) * (bbox2[4] - bbox2[2])
        union == area1 + area2 - intersection
    IN IF x2_i <= x1_i \/ y2_i <= y1_i THEN <<0, 1>>
       ELSE IF union > 0 THEN <<intersection, union>> ELSE <<0, 1>>

\* p > q and p >= q for fractions with positive denominators
FracGT(p, q) == p[1] * q[2] > q[1] * p[2]
FracGE(p, q) == p[1] * q[2] >= q[1] * p[2]

(***************************************************************************)
(* Track.to_xyah / Track.from_xyah.  The centre is kept doubled (2x, 2y)   *)
(* and the aspect ratio a = w / h as its numerator over the denominator h, *)
(* so that the arithmetic stays in the integers; a is 1.0 when h <= 0.     *)
(***************************************************************************)
to_xyah(bbox) ==
    LET w == bbox[3] - bbox[1]
        h == bbox[4] - bbox[2]
    IN <<2 * bbox[1] + w, 2 * bbox[2] + h, IF h > 0 THEN w ELSE h, h>>

from_xyah(xyah) ==
    LET w == xyah[3]        \* a * h
        h == xyah[4]
    IN <<(xyah[1] - w) \div 2, (xyah[2] - h) \div 2,
         (xyah[1] + w) \div 2, (xyah[2] + h) \div 2>>

(***************************************************************************)
(* The Kalman filter of a track: state [x, y, a, h, vx, vy, va].           *)
(***************************************************************************)
_create_kalman_filter(bbox) ==
    LET s == to_xyah(bbox) IN <<s[1], s[2], s[3], s[4], 0, 0, 0>>

\* cv2.KalmanFilter.predict with the constant-velocity transition matrix
KalmanPredict(kf) ==
    <<kf[1] + kf[5], kf[2] + kf[6], kf[3] + kf[7], kf[4], kf[5], kf[6], kf[7]>>

\* cv2.KalmanFilter.correct: the state moves by a gain applied to the
\* innovation (measurement - predicted measurement).  update always passes
\* the track's own predicted box as the measurement, so the innovation is 0
\* in every call the tracker makes and the gain's value never matters.
KalmanCorrect(kf, z) ==
    LET y == [i \in 1..4 |-> z[i] - kf[i]]
    IN <<kf[1] + y[1] \div 2, kf[2] + y[2] \div 2,
         kf[3] + y[3] \div 2, kf[4] + y[4] \div 2,
         kf[5] + y[1] \div 4, kf[6] + y[2] \div 4, kf[7] + y[3] \div 4>>

(***************************************************************************)
(* Track.__init__ and MultiObjectTracker._create_track                     *)
(***************************************************************************)
Track(track_id, bbox, confidence, class_name, kalman_filter) ==
    [track_id |-> track_id, bbox |-> bbox, confidence |-> confidence,
     class_name |-> class_name, state |-> "tentative", age |-> 0,
     time_since_update |-> 0, hits |-> 0, hit_streak |-> 0,
     kalman_filter |-> kalman_filter]

\* faulty variant: next_id is not advanced between two tracks created by one call
NewTrackId_SameId(nid, k) == nid

\* lines 158-159: track_id = self.next_id; self.next_id += 1.  The k-th track
\* created by one update call gets nid + k - 1, nid being next_id at the call.
NewTrackId(nid, k) == nid + k - 1

\* kalman_filter is <<>> for None, <<state>> otherwise
_create_track(detection, id, c) ==
    Track(id, detection.bbox, detection.confidence, detection.class,
          IF c.use_kalman THEN <<_create_kalman_filter(detection.bbox)>> ELSE <<>>)

_track_to_dict(t) ==
    [track_id |-> t.track_id, bbox |-> t.bbox, confidence |-> t.confidence,
     class |-> t.class_name, age |-> t.age, hits |-> t.hits,
     hit_streak |-> t.hit_streak, state |-> t.state]

(***************************************************************************)
(* MultiObjectTracker._associate_detections_to_trackers                    *)
(***************************************************************************)
\* lines 237-242: the IoU matrix, iou_matrix[d][t]
IouMatrix(dets, boxes) ==
    [d \in 1..Len(dets) |-> [t \in 1..Len(boxes) |-> _calculate_iou(dets[d].bbox, boxes[t])]]

\* line 257: a pair is a candidate when its IoU is above the threshold
AboveThreshold(iou, thr) == FracGT(iou, thr)

\* lines 254-258: the candidate pairs <<d, t>>, in the order of the nested
\* loops (d outer, t inner)
Candidates(iou_matrix, nD, nT, thr) ==
    LET all == [k \in 1..(nD * nT) |-> <<((k - 1) \div nT) + 1, ((k - 1) % nT) + 1>>]
    IN SelectSeq(all, LAMBDA p : AboveThreshold(iou_matrix[p[1]][p[2]], thr))

\* faulty variant: the sort is ascending (reverse=True left out)
InsertPos_Ascending(s, p, iou_matrix) ==
    LET higher == {i \in 1..Len(s) : FracGT(iou_matrix[s[i][1]][s[i][2]], iou_matrix[p[1]][p[2]])}
    IN IF higher = {} THEN Len(s) + 1 ELSE CHOOSE i \in higher : \A j \in higher : i <= j

\* where a stable descending sort puts p into the sorted list s: behind every
\* pair whose IoU is at least p's
InsertPos(s, p, iou_matrix) ==
    LET lower == {i \in 1..Len(s) : FracGT(iou_matrix[p[1]][p[2]], iou_matrix[s[i][1]][s[i][2]])}
    IN IF lower = {} THEN Len(s) + 1 ELSE CHOOSE i \in lower : \A j \in lower : i <= j

RECURSIVE SortDesc(_, _, _)
\* line 260: matches.sort(reverse=True, key=iou), a stable sort: pairs of
\* equal IoU keep their original order.  sorted is the list built so far.
SortDesc(cands, sorted, iou_matrix) ==
    IF cands = <<>> THEN sorted
    ELSE LET p == Head(cands)
             k == InsertPos(sorted, p, iou_matrix)
         IN SortDesc(Tail(cands),
                     SubSeq(sorted, 1, k - 1) \o <<p>> \o SubSeq(sorted, k, Len(sorted)),
                     iou_matrix)

\* faulty variant: only the detection is checked, a track may be taken twice
GreedyAccept_DetOnly(p, used_detections, used_tracks) ==
    p[1] \notin used_detections

\* accept a pair when its detection and its track are both unused
GreedyAccept(p, used_detections, used_tracks) ==
    p[1] \notin used_detections /\ p[2] \notin used_tracks

RECURSIVE GreedyMatch(_, _, _, _)
GreedyMatch(sorted, used_detections, used_tracks, matched) ==
    IF sorted = <<>> THEN matched
    ELSE LET p == Head(sorted)
         IN IF GreedyAccept(p, used_detections, used_tracks)
            THEN GreedyMatch(Tail(sorted), used_detections \cup {p[1]},
                             used_tracks \cup {p[2]}, Append(matched, p))
            ELSE GreedyMatch(Tail(sorted), used_detections, used_tracks, matched)

\* lines 244-277, given the IoU matrix
AssociateWith(iou_matrix, nD, nT, thr) ==
    LET matches == Candidates(iou_matrix, nD, nT, thr)
        matchedSet == {GreedyMatch(SortDesc(matches, <<>>, iou_matrix), {}, {}, <<>>)}
    IN Only({[matched |-> matched,
              unmatched_dets |-> SeqOfSet((1..nD) \ {matched[i][1] : i \in 1..Len(matched)}),
              unmatched_trks |-> SeqOfSet((1..nT) \ {matched[i][2] : i \in 1..Len(matched)})]
             : matched \in matchedSet})

_associate_detections_to_trackers(dets, boxes, thr) ==
    IF Len(boxes) = 0
    THEN [matched |-> <<>>, unmatched_dets |-> SeqOfSet(1..Len(dets)), unmatched_trks |-> <<>>]
    ELSE IF Len(dets) = 0
    THEN [matched |-> <<>>, unmatched_dets |-> <<>>, unmatched_trks |-> SeqOfSet(1..Len(boxes))]
    ELSE Only({AssociateWith(iou_matrix, Len(dets), Len(boxes), thr)
               : iou_matrix \in {IouMatrix(dets, boxes)}})

(***************************************************************************)
(* MultiObjectTracker.update, step by step                                 *)
(***************************************************************************)
\* lines 104-111: predict, age
PredictTrack(t, c) ==
    IF t.kalman_filter /= <<>> /\ c.use_kalman
    THEN LET kf == KalmanPredict(t.kalman_filter[1])
         IN [t EXCEPT !.kalman_filter = <<kf>>,
                      !.bbox = from_xyah(<<kf[1], kf[2], kf[3], kf[4]>>),
                      !.age = @ + 1, !.time_since_update = @ + 1]
    ELSE [t EXCEPT !.age = @ + 1, !.time_since_update = @ + 1]

\* faulty variant: confirmation needs one hit more than min_hits
ConfirmState_Late(state, hits, min_hits) ==
    IF state = "tentative" /\ hits > min_hits THEN "confirmed" ELSE state

\* lines 138-140: confirm track if enough hits
ConfirmState(state, hits, min_hits) ==
    IF state = "tentative" /\ hits >= min_hits THEN "confirmed" ELSE state

\* lines 119-140: update a matched track with its detection
UpdateMatched(t, det, c) ==
    LET corrected ==
            IF t.kalman_filter /= <<>> /\ c.use_kalman
            THEN LET kf == KalmanCorrect(t.kalman_filter[1], to_xyah(t.bbox))
                 IN [t EXCEPT !.kalman_filter = <<kf>>,
                              !.bbox = from_xyah(<<kf[1], kf[2], kf[3], kf[4]>>)]
            ELSE [t EXCEPT !.bbox = det.bbox]
        hits == t.hits + 1
    IN [corrected EXCEPT !.confidence = det.confidence,
                         !.time_since_update = 0,
                         !.hits = hits,
                         !.hit_streak = @ + 1,
                         !.state = ConfirmState(t.state, hits, c.min_hits)]

\* faulty variant: a track is kept one frame longer
KeepTrack_OneMore(t, c) == t.time_since_update <= c.max_age

\* line 149: delete old tracks
KeepTrack(t, c) == t.time_since_update < c.max_age

\* faulty variant: every track is returned, tentative ones included
IsReturned_All(t) == TRUE

\* line 152: the tracks update returns
IsReturned(t) == t.state = "confirmed"

\* lines 118-154, given the predicted tracks and the association a
UpdateWith(dets, trks, predicted, a, nid, c) ==
    LET detOf == [i \in 1..Len(trks) |->
                    {a.matched[k][1] : k \in {k \in 1..Len(a.matched) : a.matched[k][2] = i}}]
        updated == [i \in 1..Len(trks) |->
                        IF detOf[i] /= {} THEN UpdateMatched(predicted[i], dets[Only(detOf[i])], c)
                        ELSE predicted[i]]
        created == [k \in 1..Len(a.unmatched_dets) |->
                        _create_track(dets[a.unmatched_dets[k]], NewTrackId(nid, k), c)]
        kept == SelectSeq(updated \o created, LAMBDA t : KeepTrack(t, c))
        confirmed_tracks == SelectSeq(kept, IsReturned)
    IN [tracks |-> kept,
        next_id |-> nid + Len(created),
        returned |-> [i \in 1..Len(confirmed_tracks) |-> _track_to_dict(confirmed_tracks[i])],
        assoc |-> [dets |-> dets, boxes |-> [i \in 1..Len(trks) |-> predicted[i].bbox],
                   ids |-> [i \in 1..Len(trks) |-> trks[i].track_id],
                   thr |-> c.iou_threshold, out |-> a],
        new_ids |-> [k \in 1..Len(created) |-> created[k].track_id]]

\* the whole of update: the record of everything it computes
UpdateResult(dets, trks, nid, c) ==
    Only({Only({UpdateWith(dets, trks, predicted, a, nid, c)
                : a \in {_associate_detections_to_trackers(
                            dets, [i \in 1..Len(trks) |-> predicted[i].bbox], c.iou_threshold)}})
          : predicted \in {[i \in 1..Len(trks) |-> PredictTrack(trks[i], c)]}})

NoAssoc == [dets |-> <<>>, boxes |-> <<>>, ids |-> <<>>, thr |-> <<0, 1>>,
            out |-> [matched |-> <<>>, unmatched_dets |-> <<>>, unmatched_trks |-> <<>>]]

\* MultiObjectTracker.update(detections) called directly
Update(dets) ==
    /\ cfg.kind = "multi"
    /\ frame_count < MaxFrames
    /\ \E r \in {UpdateResult(dets, tracks, next_id, cfg)} :
          /\ tracks' = r.tracks
          /\ next_id' = r.next_id
          /\ returned' = r.returned
          /\ assoc' = r.assoc
          /\ assigned' = assigned \o r.new_ids
    /\ frame_count' = frame_count + 1
    /\ last_dets' = dets
    /\ UNCHANGED <<cfg, wrapperVars, swingVars, svcVars, extVars>>

\* MultiObjectTracker.reset
reset ==
    /\ cfg.kind = "multi"
    /\ frame_count > 0
    /\ tracks' = <<>>
    /\ frame_count' = 0
    /\ next_id' = 1
    /\ assigned' = <<>>
    /\ returned' = <<>>
    /\ last_dets' = <<>>
    /\ assoc' = NoAssoc
    /\ UNCHANGED <<cfg, wrapperVars, swingVars, svcVars, extVars>>

(***************************************************************************)
(* Properties of MultiObjectTracker                                        *)
(***************************************************************************)
TrackIds(trks) == {trks[i].track_id : i \in 1..Len(trks)}
IsUpdateStep == frame_count' = frame_count + 1
PairIou(a, p) == _calculate_iou(a.dets[p[1]].bbox, a.boxes[p[2]])
MatchedSet(a) == Range(a.out.matched)

\* C1: after every update call each track held by the tracker is confirmed
\* if and only if hits >= min_hits, and a confirmed track never goes back to
\* tentative.
C1_ConfirmedIffHits ==
    /\ [](\A i \in 1..Len(tracks) :
            (tracks[i].state = "confirmed") <=> (tracks[i].hits >= cfg.min_hits))
    /\ [][\A i \in 1..Len(tracks) : \A j \in 1..Len(tracks') :
            (tracks[i].track_id = tracks'[j].track_id /\ IsUpdateStep
             /\ tracks[i].state = "confirmed") => tracks'[j].state = "confirmed"]_vars

\* C1 witness: a tracker holding a confirmed track next to a tentative one
\* that has already been matched.
C1_Witness ==
    /\ cfg.kind = "multi" /\ cfg.min_hits = 2
    /\ \E i, j \in 1..Len(tracks) :
          /\ tracks[i].state = "confirmed" /\ tracks[i].hits >= 2
          /\ tracks[j].state = "tentative" /\ tracks[j].hits = 1

\* C2: after every update call no track has time_since_update >= max_age,
\* and an update removes a track only when its time_since_update reaches
\* max_age in that call.
C2_RemovedAtMaxAge ==
    /\ [](\A i \in 1..Len(tracks) : tracks[i].time_since_update < cfg.max_age)
    /\ [][IsUpdateStep =>
            \A i \in 1..Len(tracks) :
                (tracks[i].track_id \notin TrackIds(tracks'))
                    => /\ tracks[i].time_since_update + 1 >= cfg.max_age
                       /\ i \in Range(assoc'.out.unmatched_trks)]_vars

\* C2 witness: a track was removed by an update while another one, not
\* matched in that update, was kept.
C2_Witness ==
    /\ cfg.kind = "multi" /\ frame_count > 0
    /\ \E id \in Range(assigned) : id \notin TrackIds(tracks)
    /\ \E i \in 1..Len(tracks) : tracks[i].time_since_update > 0

\* C3: over the update calls made since construction or the last reset, no
\* two tracks receive the same track_id and ids are assigned in strictly
\* increasing order, ids of deleted tracks included.
C3_IdsUniqueIncreasing ==
    /\ \A i, j \in 1..Len(assigned) : i < j => assigned[i] < assigned[j]
    /\ \A i, j \in 1..Len(tracks) : i /= j => tracks[i].track_id /= tracks[j].track_id
    /\ TrackIds(tracks) \subseteq Range(assigned)
    /\ \A i \in 1..Len(assigned) : assigned[i] < next_id

\* C3 witness: several ids were assigned, one of them to a track that has
\* been deleted since.
C3_Witness ==
    /\ cfg.kind = "multi"
    /\ Len(assigned) >= 3
    /\ \E id \in Range(assigned) :
          /\ id \notin TrackIds(tracks)
          /\ \E i \in 1..Len(tracks) : tracks[i].track_id > id

\* the returned list has no two entries with the same track_id
ReturnedIdsUnique ==
    \A i, j \in 1..Len(returned) : i /= j => returned[i].track_id /= returned[j].track_id

\* the track of id tid sits at index t in the tracks the association saw
TrackIndex(a, tid, t) == t \in 1..Len(a.ids) /\ a.ids[t] = tid

\* C4 (as stated): track_id is unique within the returned list, and a track
\* returned by one call, for which the next call holds a detection whose IoU
\* with the track's box is above iou_threshold, gets that detection and is
\* returned again with the same id.
C4_StableAsStated ==
    /\ [](ReturnedIdsUnique)
    /\ [][IsUpdateStep =>
            \A r \in 1..Len(returned) : \A t \in 1..Len(assoc'.ids) : \A d \in 1..Len(assoc'.dets) :
                (TrackIndex(assoc', returned[r].track_id, t)
                 /\ FracGT(PairIou(assoc', <<d, t>>), cfg.iou_threshold))
                    => /\ <<d, t>> \in MatchedSet(assoc')
                       /\ \E k \in 1..Len(returned') : returned'[k].track_id = returned[r].track_id]_vars

\* the pair <<d, t>> has a higher IoU than every other pair with the same
\* detection or the same track
StrictlyBestPair(a, d, t) ==
    /\ \A t2 \in 1..Len(a.ids) : t2 /= t => FracGT(PairIou(a, <<d, t>>), PairIou(a, <<d, t2>>))
    /\ \A d2 \in 1..Len(a.dets) : d2 /= d => FracGT(PairIou(a, <<d, t>>), PairIou(a, <<d2, t>>))

\* C4 (amended): track_id is unique within the returned list, and a track
\* returned by one call, for which the next call holds a detection whose IoU
\* with the track's (predicted) box is above iou_threshold and higher than
\* the IoU of every other pair with that detection or that track, gets that
\* detection and is returned again with the same id.
C4_StableWhenBest ==
    /\ [](ReturnedIdsUnique)
    /\ [][IsUpdateStep =>
            \A r \in 1..Len(returned) : \A t \in 1..Len(assoc'.ids) : \A d \in 1..Len(assoc'.dets) :
                (TrackIndex(assoc', returned[r].track_id, t)
                 /\ FracGT(PairIou(assoc', <<d, t>>), cfg.iou_threshold)
                 /\ StrictlyBestPair(assoc', d, t))
                    => /\ <<d, t>> \in MatchedSet(assoc')
                       /\ d \notin Range(assoc'.out.unmatched_dets)
                       /\ \E k \in 1..Len(returned') : returned'[k].track_id = returned[r].track_id]_vars

\* C4 witness: two confirmed tracks are returned and the last call matched
\* one of them with a detection that also overlapped the other above the
\* threshold.
C4_Witness ==
    /\ cfg.kind = "multi"
    /\ Len(returned) >= 2
    /\ \E k \in 1..Len(assoc.out.matched) : \E t2 \in 1..Len(assoc.ids) :
          LET p == assoc.out.matched[k]
          IN /\ t2 /= p[2]
             /\ StrictlyBestPair(assoc, p[1], p[2])
             /\ FracGT(PairIou(assoc, <<p[1], t2>>), assoc.thr)
             /\ \E r \in 1..Len(returned) : returned[r].track_id = assoc.ids[p[2]]

\* C5: every returned track is confirmed (hits >= min_hits); a tentative
\* track held by the tracker is never in the returned list.
C5_OnlyConfirmedReturned ==
    /\ \A k \in 1..Len(returned) :
          returned[k].state = "confirmed" /\ returned[k].hits >= cfg.min_hits
    /\ \A i \in 1..Len(tracks) :
          tracks[i].state = "tentative"
              => \A k \in 1..Len(returned) : returned[k].track_id /= tracks[i].track_id

\* C5 witness: the tracker holds a tentative track that was matched in the
\* last call and is not returned, next to a returned one.
C5_Witness ==
    /\ cfg.kind = "multi" /\ Len(returned) >= 1
    /\ \E i \in 1..Len(tracks) :
          /\ tracks[i].state = "tentative" /\ tracks[i].hits >= 1
          /\ tracks[i].time_since_update = 0

\* C7: the last association is a greedy IoU assignment: every matched pair
\* has IoU above iou_threshold, no detection and no track is in two pairs,
\* pairs were accepted in descending IoU order, a candidate pair was rejected
\* only because its detection or track was taken by a pair of IoU at least
\* as high, and matched / unmatched detections and tracks partition the
\* input indices.
C7_GreedyAssignment ==
    LET m == assoc.out.matched
        nD == Len(assoc.dets)
        nT == Len(assoc.boxes)
        ud == assoc.out.unmatched_dets
        ut == assoc.out.unmatched_trks
    IN /\ \A k \in 1..Len(m) :
            /\ m[k][1] \in 1..nD /\ m[k][2] \in 1..nT
            /\ FracGT(PairIou(assoc, m[k]), assoc.thr)
       /\ \A k, l \in 1..Len(m) : k /= l => (m[k][1] /= m[l][1] /\ m[k][2] /= m[l][2])
       /\ \A k, l \in 1..Len(m) : k < l => FracGE(PairIou(assoc, m[k]), PairIou(assoc, m[l]))
       /\ \A d \in 1..nD : \A t \in 1..nT :
            (FracGT(PairIou(assoc, <<d, t>>), assoc.thr) /\ <<d, t>> \notin Range(m))
                => \E k \in 1..Len(m) :
                      /\ (m[k][1] = d \/ m[k][2] = t)
                      /\ FracGE(PairIou(assoc, m[k]), PairIou(assoc, <<d, t>>))
       /\ Range(ud) \cup {m[k][1] : k \in 1..Len(m)} = 1..nD
       /\ Range(ut) \cup {m[k][2] : k \in 1..Len(m)} = 1..nT
       /\ Range(ud) \cap {m[k][1] : k \in 1..Len(m)} = {}
       /\ Range(ut) \cap {m[k][2] : k \in 1..Len(m)} = {}
       /\ \A i, j \in 1..Len(ud) : i < j => ud[i] < ud[j]
       /\ \A i, j \in 1..Len(ut) : i < j => ut[i] < ut[j]

\* C7 witness: the last association matched two pairs of different IoU and
\* rejected a candidate pair whose track was already taken.
C7_Witness ==
    /\ cfg.kind = "multi"
    /\ Len(assoc.out.matched) = 2
    /\ FracGT(PairIou(assoc, assoc.out.matched[1]), PairIou(assoc, assoc.out.matched[2]))
    /\ \E d \in 1..Len(assoc.dets) : \E t \in 1..Len(assoc.boxes) :
          /\ FracGT(PairIou(assoc, <<d, t>>), assoc.thr)
          /\ <<d, t>> \notin Range(assoc.out.matched)

(***************************************************************************)
(* Configurations                                                          *)
(***************************************************************************)
Config(ma, mh, thr, uk, kind) ==
    [max_age |-> ma, min_hits |-> mh, iou_threshold |-> thr, use_kalman |-> uk, kind |-> kind]

\* MultiObjectTracker(max_age, min_hits, iou_threshold = 0.3, use_kalman)
MultiConfigs == {Config(ma, mh, <<3, 10>>, uk, "multi") :
                    ma \in 1..2, mh \in 1..2, uk \in BOOLEAN}

\* the variables of the other parts of the model, before any of their
\* operations has run
IdleLock == procs = <<>> /\ lock = {} /\ debug_lock = {} /\ ncalls = 0

IdleYolo == yolo_model_cache = 0 /\ yolo_calls = <<>> /\ yolo_loads = 0 /\ yolo_clears = 0

IdleContact == cd_input = <<>> /\ cd_result = <<>>

IdleAnalyze == va_input = <<>> /\ va_response = <<>>

IdleParse == tp_input = <<>> /\ tp_result = <<>>

IdlePhase == ph_script = <<>> /\ phase_history = <<>> /\ frame_metrics_history = <<>> /\ ph_result = <<>> /\ ph_log = <<>>

IdleForm == fe_input = <<>> /\ fe_result = <<>> /\ bm_result = <<>>

IdleDrill == dr_input = <<>> /\ dr_result = <<>>

IdleFormats == tp_tried = {} /\ tp_calls = <<>>

IdleQueue == _jobs = <<>> /\ _q = <<>> /\ _worker_started = FALSE /\ worker_pc = "get" /\ worker_job = 0 /\ req_pc = <<>> /\ req_job = <<>> /\ clock = 0 /\ nrequests = 0 /\ ntaken = <<>> /\ nthreads = 0

IdleCoord == coord = <<>> /\ twin = <<>> /\ coord_out = <<>> /\ twin_out = <<>> /\ coord_calls = 0 /\ coord_resets = 0

\* every part but the one named starts idle
InitExt(skip) ==
    /\ (skip = "lock" \/ IdleLock)
    /\ (skip = "yolo" \/ IdleYolo)
    /\ (skip = "contact" \/ IdleContact)
    /\ (skip = "analyze" \/ IdleAnalyze)
    /\ (skip = "parse" \/ IdleParse)
    /\ (skip = "phase" \/ IdlePhase)
    /\ (skip = "form" \/ IdleForm)
    /\ (skip = "drill" \/ IdleDrill)
    /\ (skip = "formats" \/ IdleFormats)
    /\ (skip = "queue" \/ IdleQueue)
    /\ (skip = "coord" \/ IdleCoord)

InitBase ==
    /\ tracks = <<>>
    /\ frame_count = 0
    /\ next_id = 1
    /\ returned = <<>>
    /\ last_dets = <<>>
    /\ assoc = NoAssoc
    /\ assigned = <<>>
    /\ current_track = <<>>
    /\ wresult = <<>>
    /\ winput = <<>>
    /\ wcalls = 0
    /\ det_state = "idle"
    /\ t_start = <<>>
    /\ peak = <<>>
    /\ sr_tick = <<>>
    /\ events = <<>>
    /\ now = 0
    /\ nsamples = 0
    /\ swing_samples = <<>>
    /\ active_sessions = [sid \in {"s1", "s2"} |-> <<>>]
    /\ threads = <<>>
    /\ debug_info = [swings |-> 0, bat_connected |-> FALSE]
    /\ api_result = [call |-> "none", session |-> "none", success |-> FALSE]

InitCommon == InitBase /\ InitExt("none")

InitMulti == cfg \in MultiConfigs /\ InitCommon

NextMulti == (\E dets \in DetLists : Update(dets)) \/ reset

SpecMulti == InitMulti /\ [][NextMulti]_vars

(***************************************************************************)
(* PersonTracker, BatTrackerAdvanced, BallTrackerAdvanced: one             *)
(* MultiObjectTracker each and the dict of the track last returned.        *)
(* An optional value is <<>> for None and <<v>> otherwise.                 *)
(***************************************************************************)
\* the constructor arguments of lines 338-343, 398-403, 467-472
PersonConfig(uk) == Config(30, 2, <<3, 10>>, uk, "person")
BatConfig(uk) == Config(15, 2, <<2, 10>>, uk, "bat")
BallConfig(uk) == Config(20, 2, <<25, 100>>, uk, "ball")
WrapConfigs == {PersonConfig(uk) : uk \in BOOLEAN} \cup {BatConfig(uk) : uk \in BOOLEAN}
                  \cup {BallConfig(uk) : uk \in BOOLEAN}

\* lines 376, 441, 511: the frames a lost track is still reported for
GraceFrames(kind) == IF kind = "person" THEN 10 ELSE IF kind = "bat" THEN 5 ELSE 8

\* lines 380, 445, 515: confidence * 0.7 / 0.6 / 0.5, in thousandths
PredictedConfidence(kind, confidence) ==
    IF kind = "person" THEN (confidence * 7) \div 10
    ELSE IF kind = "bat" THEN (confidence * 6) \div 10
    ELSE (confidence * 5) \div 10

\* what a detector hands to a wrapper: None or one detection.  extra stands
\* for the detection's angle / method (bat) or center / radius / method (ball)
WrapInputs == {<<>>,
               <<[bbox |-> BoxA, confidence |-> 900, extra |-> "e1"]>>,
               <<[bbox |-> BoxC, confidence |-> 600, extra |-> "e2"]>>}

\* lines 356-362, 416-422, 485-491: the detection list given to the tracker
WrapDetections(input, kind) ==
    IF input = <<>> THEN <<>>
    ELSE <<Det(input[1].bbox, input[1].confidence, kind)>>

\* max(tracks, key=confidence): the first of the most confident
BestTrack(trks) ==
    trks[CHOOSE i \in 1..Len(trks) :
            /\ \A j \in 1..Len(trks) : trks[i].confidence >= trks[j].confidence
            /\ \A j \in 1..(i - 1) : trks[i].confidence > trks[j].confidence]

\* lines 366-370, 426-435, 495-505: a returned track with the detection's
\* extra fields (bat, ball); predicted is FALSE where the dict has no such key
TrackedResult(best, input, kind) ==
    [track_id |-> best.track_id, bbox |-> best.bbox, confidence |-> best.confidence,
     class |-> best.class, age |-> best.age, hits |-> best.hits,
     hit_streak |-> best.hit_streak, state |-> best.state, predicted |-> FALSE,
     extra |-> IF kind /= "person" /\ input /= <<>> THEN <<input[1].extra>> ELSE <<>>]

\* get_track_by_id, lines 315-320
get_track_by_id(trks, track_id) ==
    LET found == {i \in 1..Len(trks) : trks[i].track_id = track_id}
    IN IF found = {} THEN <<>>
       ELSE <<trks[CHOOSE i \in found : \A j \in found : i <= j]>>

\* lines 376, 441, 511: the placeholder is given while the track is within
\* its grace window
StillValid(track, kind) == track.time_since_update < GraceFrames(kind)

\* lines 377-383, 442-452, 512-523: the placeholder for a track that was not
\* returned in this frame
PredictedResult(track, current, kind) ==
    [track_id |-> track.track_id, bbox |-> track.bbox,
     confidence |-> PredictedConfidence(kind, track.confidence),
     class |-> kind, predicted |-> TRUE,
     extra |-> IF kind = "bat" THEN current.extra
               ELSE IF kind = "ball"
                    THEN <<<<(track.bbox[1] + track.bbox[3]) \div 2,
                             (track.bbox[2] + track.bbox[4]) \div 2,
                             Max2(track.bbox[3] - track.bbox[1], track.bbox[4] - track.bbox[2]) \div 2>>>>
                    ELSE <<>>]

\* lines 366-386, 426-455, 495-526: what the wrapper does with the list the
\* tracker returned; [result, current]
WrapperOutcome(ret, trks, current, input, kind) ==
    IF ret /= <<>>
    THEN LET best_track == TrackedResult(BestTrack(ret), input, kind)
         IN [result |-> <<best_track>>, current |-> <<best_track>>]
    ELSE LET track == IF current /= <<>> THEN get_track_by_id(trks, current[1].track_id) ELSE <<>>
         IN IF track /= <<>> /\ StillValid(track[1], kind)
            THEN [result |-> <<PredictedResult(track[1], current[1], kind)>>, current |-> current]
            ELSE [result |-> <<>>, current |-> <<>>]

\* PersonTracker.update / BatTrackerAdvanced.update / BallTrackerAdvanced.update
WrapperUpdate(input) ==
    /\ cfg.kind /= "multi"
    /\ wcalls < MaxWrapCalls
    /\ \E r \in {UpdateResult(WrapDetections(input, cfg.kind), tracks, next_id, cfg)} :
          /\ tracks' = r.tracks
          /\ next_id' = r.next_id
          /\ returned' = r.returned
          /\ assoc' = r.assoc
          /\ assigned' = assigned \o r.new_ids
          /\ \E o \in {WrapperOutcome(r.returned, r.tracks, current_track, input, cfg.kind)} :
                /\ wresult' = o.result
                /\ current_track' = o.current
    /\ frame_count' = frame_count + 1
    /\ last_dets' = WrapDetections(input, cfg.kind)
    /\ wcalls' = wcalls + 1
    /\ winput' = input
    /\ UNCHANGED <<cfg, swingVars, svcVars, extVars>>

InitWrap == cfg \in WrapConfigs /\ InitCommon

NextWrap == \E input \in WrapInputs : WrapperUpdate(input)

SpecWrap == InitWrap /\ [][NextWrap]_vars

\* the track the wrapper was following when its last call began is still
\* held by the tracker
Followed == IF current_track = <<>> THEN <<>> ELSE get_track_by_id(tracks', current_track[1].track_id)

\* C6: a wrapper update with no detection, while a track is followed,
\* returns a placeholder marked predicted with the track's confidence
\* multiplied by 0.7 / 0.6 / 0.5 while the track's time_since_update is
\* below 10 / 5 / 8, and None once it is not.
C6_PlaceholderInGrace ==
    [][(wcalls' = wcalls + 1 /\ winput' = <<>> /\ current_track /= <<>>)
        => IF Followed /= <<>> /\ Followed[1].time_since_update < GraceFrames(cfg.kind)
           THEN /\ wresult' /= <<>>
                /\ wresult'[1].predicted
                /\ wresult'[1].track_id = current_track[1].track_id
                /\ wresult'[1].confidence = PredictedConfidence(cfg.kind, Followed[1].confidence)
           ELSE wresult' = <<>>]_vars

(***************************************************************************)
(* SwingDetector (swing_detection_service.py, scripts/detect_swings.py).   *)
(* A timestamp is an integer number of tenths of a millisecond; angular    *)
(* rates are integers in dps and omega is kept as its square, so that the  *)
(* threshold tests are exact.                                              *)
(***************************************************************************)
FORCED_START_DPS == 90
FORCED_STOP_DPS == 45
MIN_SWING_MS == 100
MAX_SWING_MS == 1500
SR_TICK_MAXLEN == 50

\* gyroscope samples <<gx, gy, gz>>: omega = 45, 50, 90, 200 dps
GyroChoices == {<<27, 36, 0>>, <<30, 40, 0>>, <<54, 72, 0>>, <<0, 0, 200>>}
\* time between two samples: 40 ms, 120.5 ms, 1501 ms
DtChoices == {400, 1205, 15010}

OmegaSq(g) == g[1] * g[1] + g[2] * g[2] + g[3] * g[3]

\* fps_tick: self.sr_tick.append(t) on a deque(maxlen=50)
fps_tick(ticks, t) ==
    IF Len(ticks) >= SR_TICK_MAXLEN THEN Append(Tail(ticks), t) ELSE Append(ticks, t)

\* faulty variant: no upper limit on the duration
DurationAccepted_NoMax(dur_ms) == MIN_SWING_MS <= dur_ms

\* faulty variant: the difference in seconds is taken for milliseconds
DurationMs_Seconds(t, t0) == (t - t0) \div 10000

\* line 239: dur_ms = int((t - self.t_start) * 1000)
DurationMs(t, t0) == (t - t0) \div 10

\* line 241: MIN_SWING_MS <= dur_ms <= MAX_SWING_MS
DurationAccepted(dur_ms) == MIN_SWING_MS <= dur_ms /\ dur_ms <= MAX_SWING_MS

\* round(omega_pk, 1), in tenths of a dps: the nearest tenth of sqrt(sq)
OmegaRounded(sq) ==
    CHOOSE k \in 0..(10 * sq + 10) :
        (2 * k - 1) * (2 * k - 1) <= 400 * sq /\ 400 * sq < (2 * k + 1) * (2 * k + 1)

\* lines 251-261: the swing data handed to on_swing_detected (the speed in
\* mph is omega_peak_dps times a constant and is left out with the wall
\* clock timestamp)
SwingData(ts, pk, t, dur_ms) ==
    [t_start |-> ts, t_peak |-> pk[1], t_end |-> t, duration_ms |-> dur_ms,
     omega_peak_dps |-> OmegaRounded(pk[2])]

\* SwingDetector.feed(t, ax, ay, az, gx, gy, gz)
feed(t, g) ==
    /\ nsamples < MaxSamples
    /\ nsamples' = nsamples + 1
    /\ now' = t
    /\ sr_tick' = fps_tick(sr_tick, t)
    /\ swing_samples' = IF det_state = "idle"
                        THEN IF OmegaSq(g) >= FORCED_START_DPS * FORCED_START_DPS
                             THEN <<<<t, OmegaSq(g)>>>> ELSE <<>>
                        ELSE Append(swing_samples, <<t, OmegaSq(g)>>)
    /\ IF det_state = "idle"
       THEN /\ IF OmegaSq(g) >= FORCED_START_DPS * FORCED_START_DPS
               THEN /\ det_state' = "in_swing"
                    /\ t_start' = <<t>>
                    /\ peak' = <<t, OmegaSq(g)>>
               ELSE UNCHANGED <<det_state, t_start, peak>>
            /\ UNCHANGED events
       ELSE LET pk == IF peak = <<>> \/ OmegaSq(g) > peak[2] THEN <<t, OmegaSq(g)>> ELSE peak
            IN IF OmegaSq(g) <= FORCED_STOP_DPS * FORCED_STOP_DPS
               THEN /\ det_state' = "idle"
                    /\ peak' = <<>>
                    /\ events' = IF DurationAccepted(DurationMs(t, t_start[1]))
                                 THEN Append(events, SwingData(t_start[1], pk, t,
                                                               DurationMs(t, t_start[1])))
                                 ELSE events
                    /\ UNCHANGED t_start
               ELSE /\ peak' = pk
                    /\ UNCHANGED <<det_state, t_start, events>>
    /\ UNCHANGED <<trackerVars, wrapperVars, svcVars, extVars>>

InitSwing == cfg = PersonConfig(TRUE) /\ InitCommon

NextSwing == \E dt \in DtChoices : \E g \in GyroChoices : feed(now + dt, g)

SpecSwing == InitSwing /\ [][NextSwing]_vars

SwingEnds == det_state = "in_swing" /\ det_state' = "idle"

\* C8 (as stated): a sample sequence whose omega rises to start_dps and falls
\* to stop_dps within 300 ms emits exactly one swing event, with duration_ms
\* between 100 and 1500.
C8_OneSwingAsStated ==
    [][/\ (SwingEnds /\ now' - t_start[1] <= 3000)
            => /\ Len(events') = Len(events) + 1
               /\ events'[Len(events')].duration_ms >= MIN_SWING_MS
               /\ events'[Len(events')].duration_ms <= MAX_SWING_MS
       /\ ~SwingEnds => events' = events]_vars

\* C8 (amended): a sample sequence whose omega rises to start_dps and falls
\* to stop_dps at least 100 ms and at most 300 ms later emits exactly one
\* swing event, with duration_ms between 100 and 1500; no event is emitted
\* when the fall comes less than 100 ms after the rise.
C8_OneSwingFrom100ms ==
    [][/\ (SwingEnds /\ now' - t_start[1] <= 3000 /\ now' - t_start[1] >= 1000)
            => /\ Len(events') = Len(events) + 1
               /\ events'[Len(events')].duration_ms >= MIN_SWING_MS
               /\ events'[Len(events')].duration_ms <= MAX_SWING_MS
               /\ events'[Len(events')].duration_ms = (now' - t_start[1]) \div 10
       /\ (SwingEnds /\ now' - t_start[1] < 1000) => events' = events
       /\ ~SwingEnds => events' = events]_vars

\* C8 witness: a swing that ended within 300 ms has been emitted, after an
\* earlier one that ended in under 100 ms was dropped.
C8_Witness ==
    /\ Len(events) = 1
    /\ events[1].duration_ms <= 300
    /\ events[1].t_end = now
    /\ events[1].t_start > sr_tick[2]
    /\ det_state = "idle"

(***************************************************************************)
(* SwingDetectionService (swing_detection_service.py): request threads     *)
(* calling start_detection / stop_detection, and one detection thread per  *)
(* start running _run_detection -> _main_loop -> subscribe_and_run.        *)
(* A block under "with self.lock" or "with self.debug_lock" is one atomic  *)
(* step.  A thread record:                                                 *)
(*   session   the session_id the thread was started for                   *)
(*   pc        "main_check" top of the while loop of _main_loop (540-550)  *)
(*             "scan"       awaiting pick_device (559)                     *)
(*             "connect"    entering BleakClient (573)                     *)
(*             "run"        inside subscribe_and_run's while loop (314)    *)
(*             "cleanup"    the finally block of _run_detection (534)      *)
(*             "done"       the thread has ended                           *)
(*   iters     loop iterations the thread has begun (_main_loop passes     *)
(*             that got past the session check, subscribe_and_run polls)   *)
(*   stop_at   <<>>, or <<iters at the time stop_detection removed the     *)
(*             entry of this thread>>                                      *)
(***************************************************************************)
Sessions == {"s1", "s2"}

Alive(th) == th.pc /= "done"

NewThread(session_id) ==
    [session |-> session_id, pc |-> "main_check", iters |-> 0, stop_at |-> <<>>]

\* _add_debug_connection_event (lines 460-471) appends to a list that no
\* decision of the service reads; of debug_info the model keeps
\* bat_connected and the number of swings reported
AddEvent(d) == d

\* start_detection(session_id), lines 356-386
start_detection(session_id) ==
    /\ Len(threads) < MaxThreads
    /\ IF active_sessions[session_id] /= <<>>
       THEN /\ api_result' = [call |-> "start", session |-> session_id, success |-> FALSE]
            /\ UNCHANGED <<active_sessions, threads>>
       ELSE /\ threads' = Append(threads, NewThread(session_id))
            /\ active_sessions' = [active_sessions EXCEPT
                    ![session_id] = <<[thread |-> Len(threads) + 1, status |-> "running"]>>]
            /\ api_result' = [call |-> "start", session |-> session_id, success |-> TRUE]
    /\ UNCHANGED <<debug_info, trackerVars, wrapperVars, swingVars, extVars>>

\* stop_detection(session_id), lines 388-409: the entry is marked 'stopping'
\* and deleted under the lock; the thread is neither signalled nor joined
stop_detection(session_id) ==
    /\ IF active_sessions[session_id] = <<>>
       THEN /\ api_result' = [call |-> "stop", session |-> session_id, success |-> FALSE]
            /\ UNCHANGED <<active_sessions, threads>>
       ELSE /\ active_sessions' = [active_sessions EXCEPT ![session_id] = <<>>]
            /\ threads' = [threads EXCEPT ![active_sessions[session_id][1].thread].stop_at =
                                IF @ = <<>> THEN <<threads[active_sessions[session_id][1].thread].iters>>
                                ELSE @]
            /\ api_result' = [call |-> "stop", session |-> session_id, success |-> TRUE]
    /\ UNCHANGED <<debug_info, trackerVars, wrapperVars, swingVars, extVars>>

\* lines 542-550: the thread goes on when an entry for its session id exists
\* with status 'running'
SessionActive(session_id) ==
    active_sessions[session_id] /= <<>> /\ active_sessions[session_id][1].status = "running"

\* _main_loop lines 542-557: the session check under the lock, then the
\* 'scanning' event
MainCheck(i) ==
    /\ threads[i].pc = "main_check"
    /\ IF SessionActive(threads[i].session)
       THEN /\ threads[i].iters < MaxIters
            /\ threads' = [threads EXCEPT ![i].pc = "scan", ![i].iters = @ + 1]
            /\ debug_info' = [AddEvent(debug_info) EXCEPT !.bat_connected = FALSE]
       ELSE /\ threads' = [threads EXCEPT ![i].pc = "cleanup"]
            /\ UNCHANGED debug_info
    /\ UNCHANGED <<active_sessions, api_result, trackerVars, wrapperVars, swingVars, extVars>>

\* lines 559-570: pick_device finds the bat or not
Scan(i, found) ==
    /\ threads[i].pc = "scan"
    /\ threads' = [threads EXCEPT ![i].pc = IF found THEN "connect" ELSE "main_check"]
    /\ debug_info' = AddEvent(debug_info)
    /\ UNCHANGED <<active_sessions, api_result, trackerVars, wrapperVars, swingVars, extVars>>

\* lines 572-586 and 596-601: the client connects, or reports not connected,
\* or raises
Connect(i, connected) ==
    /\ threads[i].pc = "connect"
    /\ threads' = [threads EXCEPT ![i].pc = IF connected THEN "run" ELSE "main_check"]
    /\ debug_info' = [AddEvent(debug_info) EXCEPT !.bat_connected = connected]
    /\ UNCHANGED <<active_sessions, api_result, trackerVars, wrapperVars, swingVars, extVars>>

\* subscribe_and_run lines 314-335: one pass of the polling loop with the
\* client still connected; stop_evt is never set and active_sessions is not
\* read here
RunPoll(i) ==
    /\ threads[i].pc = "run"
    /\ threads[i].iters < MaxIters
    /\ threads' = [threads EXCEPT ![i].iters = @ + 1]
    /\ UNCHANGED <<active_sessions, debug_info, api_result, trackerVars, wrapperVars, swingVars, extVars>>

\* a notification completes a swing: on_swing_detected, lines 489-520
\* (_add_debug_swing keeps the last 50; the two API calls are logged)
SwingNotified(i) ==
    /\ threads[i].pc = "run"
    /\ debug_info.swings < MaxSwings
    /\ debug_info' = [debug_info EXCEPT !.swings = @ + 1]
    /\ UNCHANGED <<active_sessions, threads, api_result, trackerVars, wrapperVars, swingVars, extVars>>

\* lines 333-335 and 592-601: the client disconnects or an exception ends
\* subscribe_and_run; back to the top of _main_loop
Disconnect(i) ==
    /\ threads[i].pc = "run"
    /\ threads' = [threads EXCEPT ![i].pc = "main_check"]
    /\ debug_info' = [AddEvent(debug_info) EXCEPT !.bat_connected = FALSE]
    /\ UNCHANGED <<active_sessions, api_result, trackerVars, wrapperVars, swingVars, extVars>>

\* _run_detection lines 534-538: the finally block
Cleanup(i) ==
    /\ threads[i].pc = "cleanup"
    /\ threads' = [threads EXCEPT ![i].pc = "done"]
    /\ active_sessions' =
            IF active_sessions[threads[i].session] /= <<>>
            THEN [active_sessions EXCEPT ![threads[i].session] = <<[@[1] EXCEPT !.status = "stopped"]>>]
            ELSE active_sessions
    /\ UNCHANGED <<debug_info, api_result, trackerVars, wrapperVars, swingVars, extVars>>

InitSvc == cfg = PersonConfig(TRUE) /\ InitCommon

NextSvc ==
    \/ \E sid \in Sessions : start_detection(sid)
    \/ \E sid \in Sessions : stop_detection(sid)
    \/ \E i \in 1..Len(threads) :
          \/ MainCheck(i)
          \/ \E found \in BOOLEAN : Scan(i, found)
          \/ \E connected \in BOOLEAN : Connect(i, connected)
          \/ RunPoll(i)
          \/ SwingNotified(i)
          \/ Disconnect(i)
          \/ Cleanup(i)

SpecSvc == InitSvc /\ [][NextSvc]_vars

\* C9: after stop_detection(session_id) has returned True, the session's
\* detection thread begins at most one further loop iteration before it
\* ends.
C9_StopsWithinOneIteration ==
    \A i \in 1..Len(threads) :
        threads[i].stop_at /= <<>> => threads[i].iters - threads[i].stop_at[1] <= 1

\* C10: at most one detection thread is alive for a session id at any time.
C10_OneThreadPerSession ==
    \A i, j \in 1..Len(threads) :
        (i /= j /\ threads[i].session = threads[j].session)
            => ~(Alive(threads[i]) /\ Alive(threads[j]))

(***************************************************************************)
(* SwingDetectionService locking (swing_detection_service.py): the blocks  *)
(* under "with self.lock" and "with self.debug_lock", statement by         *)
(* statement.  A threading.Lock is the set of threads holding it; acquire  *)
(* waits until that set is empty.  procs is the list of threads in the     *)
(* order they were started: one request thread per call of the service     *)
(* (the web server handles each request on a thread of its own) and one    *)
(* detection thread per successful start_detection.  A thread record:      *)
(*   kind     "request" or "detect"                                        *)
(*   session  the session_id argument                                      *)
(*   loc      the with block or await the thread is at                     *)
(*   sub      0 before the with block, 1 inside it before its body,        *)
(*            2 inside it after its body                                   *)
(*   ok       what the body read: the session is active                    *)
(*   iters    passes of the while loop of _main_loop the thread has begun  *)
(***************************************************************************)
\* with self.lock: start_detection 358, stop_detection 390, get_status 413,
\* _main_loop 544, _run_detection 536
LockLocs == {"start", "stop", "status", "check", "finally"}

\* with self.debug_lock: _add_debug_swing 431, _add_debug_api_call 447,
\* _add_debug_connection_event 462, get_debug_info 475, _main_loop 554, 582,
\* 594, 599
DebugLockLocs == {"get_debug", "ev_scanning", "clear_bat", "ev_not_found", "ev_found",
                  "ev_connection_failed", "ev_connected", "set_bat", "add_swing",
                  "api_call_swing", "api_call_stop", "ev_disconnected", "unset_bat",
                  "ev_error", "unset_bat_err"}

\* the awaits of _main_loop: pick_device 559, BleakClient 573,
\* subscribe_and_run 590
AwaitLocs == {"pick", "connect", "run"}

\* the with blocks whose body assigns to, or deletes from, active_sessions
\* (373, 398, 401, 538); get_status and the check of _main_loop only read
SessionWriters == {"start", "stop", "finally"}

\* the with blocks whose body assigns to debug_info; get_debug_info only
\* reads
DebugWriters == DebugLockLocs \ {"get_debug"}

\* faulty variant: acquire does not wait
LockFree_Always(holders) == holders = holders

\* threading.Lock.acquire: the lock can be taken when no thread holds it
LockFree(holders) == holders = {}

NewRequest(op, session_id) ==
    [kind |-> "request", session |-> session_id, loc |-> op, sub |-> 0,
     ok |-> FALSE, iters |-> 0]

\* threading.Thread(target=self._run_detection, args=(session_id,)), 366-371
NewDetect(session_id) ==
    [kind |-> "detect", session |-> session_id, loc |-> "check", sub |-> 0,
     ok |-> FALSE, iters |-> 0]

\* a request thread enters start_detection, stop_detection, get_status or
\* get_debug_info
Call(op, session_id) ==
    /\ ncalls < MaxLockCalls
    /\ ncalls' = ncalls + 1
    /\ procs' = Append(procs, NewRequest(op, session_id))
    /\ UNCHANGED <<lock, debug_lock, active_sessions, debug_info>>
    /\ UNCHANGED notLock

\* entering a with block: __enter__ acquires the lock
Acquire(p) ==
    /\ procs[p].sub = 0
    /\ \/ /\ procs[p].loc \in LockLocs
          /\ procs[p].loc = "check" => procs[p].iters < MaxLockIters
          /\ LockFree(lock)
          /\ lock' = lock \cup {p}
          /\ UNCHANGED debug_lock
       \/ /\ procs[p].loc \in DebugLockLocs
          /\ LockFree(debug_lock)
          /\ debug_lock' = debug_lock \cup {p}
          /\ UNCHANGED lock
    /\ procs' = [procs EXCEPT ![p].sub = 1,
                              ![p].iters = IF procs[p].loc = "check" THEN @ + 1 ELSE @]
    /\ UNCHANGED <<ncalls, active_sessions, debug_info>>
    /\ UNCHANGED notLock

\* the body of the with block at loc, run by thread p: the new
\* active_sessions
SessionsAfter(p) ==
    LET sid == procs[p].session IN
    CASE procs[p].loc = "start" /\ active_sessions[sid] = <<>> ->
            [active_sessions EXCEPT
                ![sid] = <<[thread |-> Len(procs) + 1, status |-> "running"]>>]
      [] procs[p].loc = "stop" /\ active_sessions[sid] /= <<>> ->
            [active_sessions EXCEPT ![sid] = <<>>]
      [] procs[p].loc = "finally" /\ active_sessions[sid] /= <<>> ->
            [active_sessions EXCEPT ![sid] = <<[@[1] EXCEPT !.status = "stopped"]>>]
      [] OTHER -> active_sessions

\* the body of the with block at loc: the new debug_info
DebugAfter(loc) ==
    CASE loc \in {"clear_bat", "unset_bat", "unset_bat_err"} ->
            [debug_info EXCEPT !.bat_connected = FALSE]
      [] loc = "set_bat" -> [debug_info EXCEPT !.bat_connected = TRUE]
      [] loc = "add_swing" -> [debug_info EXCEPT !.swings = @ + 1]
      [] OTHER -> AddEvent(debug_info)

\* the body of a with block
Body(p) ==
    /\ procs[p].sub = 1
    /\ active_sessions' = SessionsAfter(p)
    /\ debug_info' = DebugAfter(procs[p].loc)
    /\ procs' =
         LET sid == procs[p].session
             done == [procs EXCEPT
                        ![p].sub = 2,
                        ![p].ok = IF procs[p].loc = "check" THEN SessionActive(sid)
                                  ELSE active_sessions[sid] /= <<>>]
         IN IF procs[p].loc = "start" /\ active_sessions[sid] = <<>>
            THEN Append(done, NewDetect(sid))
            ELSE done
    /\ UNCHANGED <<ncalls, lock, debug_lock>>
    /\ UNCHANGED notLock

\* where a thread goes on after the with block at loc
AfterBlock(loc, ok) ==
    CASE loc \in {"start", "stop", "status", "get_debug"} -> "done"
      [] loc = "check" -> IF ok THEN "ev_scanning" ELSE "finally"
      [] loc = "ev_scanning" -> "clear_bat"
      [] loc = "clear_bat" -> "pick"
      [] loc = "ev_not_found" -> "check"
      [] loc = "ev_found" -> "connect"
      [] loc = "ev_connection_failed" -> "check"
      [] loc = "ev_connected" -> "set_bat"
      [] loc = "set_bat" -> "run"
      [] loc = "add_swing" -> "api_call_swing"
      [] loc = "api_call_swing" -> "api_call_stop"
      [] loc = "api_call_stop" -> "run"
      [] loc = "ev_disconnected" -> "unset_bat"
      [] loc = "unset_bat" -> "check"
      [] loc = "ev_error" -> "unset_bat_err"
      [] loc = "unset_bat_err" -> "check"
      [] loc = "finally" -> "done"

\* leaving a with block: __exit__ releases the lock
Release(p) ==
    /\ procs[p].sub = 2
    /\ lock' = lock \ {p}
    /\ debug_lock' = debug_lock \ {p}
    /\ procs' = [procs EXCEPT ![p].loc = AfterBlock(procs[p].loc, procs[p].ok), ![p].sub = 0]
    /\ UNCHANGED <<ncalls, active_sessions, debug_info>>
    /\ UNCHANGED notLock

\* the outcomes of an await of _main_loop
AwaitOutcomes(loc) ==
    CASE loc = "pick" -> {"ev_found", "ev_not_found"}
      [] loc = "connect" -> {"ev_connected", "ev_connection_failed", "ev_error"}
      [] loc = "run" -> {"add_swing", "ev_disconnected", "ev_error"}

\* an await of _main_loop completes
Await(p, outcome) ==
    /\ procs[p].loc \in AwaitLocs
    /\ outcome \in AwaitOutcomes(procs[p].loc)
    /\ outcome = "add_swing" => debug_info.swings < MaxSwings
    /\ procs' = [procs EXCEPT ![p].loc = outcome, ![p].sub = 0]
    /\ UNCHANGED <<ncalls, lock, debug_lock, active_sessions, debug_info>>
    /\ UNCHANGED notLock

InitLock ==
    /\ cfg = PersonConfig(TRUE)
    /\ InitCommon

NextLock ==
    \/ \E op \in {"start", "stop", "status", "get_debug"} : Call(op, "s1")
    \/ \E p \in 1..Len(procs) :
          \/ Acquire(p)
          \/ Body(p)
          \/ Release(p)
          \/ \E outcome \in {"ev_found", "ev_not_found", "ev_connected",
                             "ev_connection_failed", "ev_error", "add_swing",
                             "ev_disconnected"} : Await(p, outcome)

SpecLock == InitLock /\ [][NextLock]_vars

\* the threads inside a with block whose body writes active_sessions
InSessionWrite == {p \in 1..Len(procs) : procs[p].sub \in {1, 2} /\ procs[p].loc \in SessionWriters}

\* the threads inside a with block whose body writes debug_info
InDebugWrite == {p \in 1..Len(procs) : procs[p].sub \in {1, 2} /\ procs[p].loc \in DebugWriters}

C11_Exclusive ==
    /\ InSessionWrite \subseteq lock
    /\ InDebugWrite \subseteq debug_lock
    /\ Cardinality(InSessionWrite) <= 1
    /\ Cardinality(InDebugWrite) <= 1

C11_WritesUnderLock ==
    /\ active_sessions' /= active_sessions =>
            \E p \in lock : procs[p].sub = 1 /\ procs'[p].sub = 2
    /\ debug_info' /= debug_info =>
            \E p \in debug_lock : procs[p].sub = 1 /\ procs'[p].sub = 2

\* C11: every change of active_sessions is made by a thread holding
\* self.lock and every change of debug_info by a thread holding
\* self.debug_lock, request thread or detection thread, and at no time are
\* two threads inside blocks that write the same dictionary.
C11_MutationsUnderLocks == [] C11_Exclusive /\ [][C11_WritesUnderLock]_vars

\* a request thread has deleted the entry inside stop_detection's block and
\* still holds self.lock while the detection thread, which has reported a
\* swing under self.debug_lock, is back at the session check of _main_loop
C11_Witness ==
    /\ \E p, q \in 1..Len(procs) :
          /\ procs[p].kind = "request" /\ procs[p].loc = "stop"
          /\ procs[p].sub = 2 /\ p \in lock
          /\ procs[q].kind = "detect" /\ procs[q].loc = "check" /\ procs[q].sub = 0
    /\ debug_info.swings > 0

(***************************************************************************)
(* yolo_cache.py: the module global _yolo_model_cache and the calls of     *)
(* get_yolo_model, statement by statement; no lock is taken.  A YOLO       *)
(* instance is the number of the load that made it, 0 is None.  A call:    *)
(*   pc      "test"   at "if _yolo_model_cache is None" (line 22)          *)
(*           "load"   inside the try, before YOLO('yolov8n.pt') returns    *)
(*           "store"  the instance is made, the global not yet assigned    *)
(*           "return" at "return _yolo_model_cache" (line 31)              *)
(*           "done"                                                        *)
(*   made    the instance the call has constructed, 0 for none             *)
(*   result  <<>> until the call returns, then <<instance or 0>>           *)
(***************************************************************************)
NewYoloCall == [pc |-> "test", made |-> 0, result |-> <<>>]

\* a thread calls get_yolo_model (ball_detector.py line 151)
YoloCall ==
    /\ Len(yolo_calls) < MaxYoloCalls
    /\ yolo_calls' = Append(yolo_calls, NewYoloCall)
    /\ UNCHANGED <<yolo_model_cache, yolo_loads, yolo_clears>>
    /\ UNCHANGED notYolo

\* line 22: if _yolo_model_cache is None
YoloTest(c) ==
    /\ yolo_calls[c].pc = "test"
    /\ yolo_calls' = [yolo_calls EXCEPT
            ![c].pc = IF yolo_model_cache = 0 THEN "load" ELSE "return"]
    /\ UNCHANGED <<yolo_model_cache, yolo_loads, yolo_clears>>
    /\ UNCHANGED notYolo

\* line 25, right-hand side: YOLO('yolov8n.pt') returns a new instance, or
\* raises and the call returns None (lines 27-29)
YoloLoad(c, loaded) ==
    /\ yolo_calls[c].pc = "load"
    /\ IF loaded
       THEN /\ yolo_loads' = yolo_loads + 1
            /\ yolo_calls' = [yolo_calls EXCEPT ![c].pc = "store", ![c].made = yolo_loads + 1]
       ELSE /\ yolo_calls' = [yolo_calls EXCEPT ![c].pc = "done", ![c].result = <<0>>]
            /\ UNCHANGED yolo_loads
    /\ UNCHANGED <<yolo_model_cache, yolo_clears>>
    /\ UNCHANGED notYolo

\* line 25, the assignment to the global
YoloStore(c) ==
    /\ yolo_calls[c].pc = "store"
    /\ yolo_model_cache' = yolo_calls[c].made
    /\ yolo_calls' = [yolo_calls EXCEPT ![c].pc = "return"]
    /\ UNCHANGED <<yolo_loads, yolo_clears>>
    /\ UNCHANGED notYolo

\* line 31: return _yolo_model_cache
YoloReturn(c) ==
    /\ yolo_calls[c].pc = "return"
    /\ yolo_calls' = [yolo_calls EXCEPT ![c].pc = "done", ![c].result = <<yolo_model_cache>>]
    /\ UNCHANGED <<yolo_model_cache, yolo_loads, yolo_clears>>
    /\ UNCHANGED notYolo

\* clear_yolo_cache, lines 33-37
clear_yolo_cache ==
    /\ yolo_clears < MaxYoloClears
    /\ yolo_model_cache' = 0
    /\ yolo_clears' = yolo_clears + 1
    /\ UNCHANGED <<yolo_calls, yolo_loads>>
    /\ UNCHANGED notYolo

InitYolo == cfg = PersonConfig(TRUE) /\ InitCommon

NextYolo ==
    \/ YoloCall
    \/ \E c \in 1..Len(yolo_calls) :
          \/ YoloTest(c)
          \/ \E loaded \in BOOLEAN : YoloLoad(c, loaded)
          \/ YoloStore(c)
          \/ YoloReturn(c)
    \/ clear_yolo_cache

SpecYolo == InitYolo /\ [][NextYolo]_vars

\* the instances returned so far by calls that returned a model
YoloReturned ==
    {yolo_calls[c].result[1] : c \in {k \in 1..Len(yolo_calls) :
            yolo_calls[k].result /= <<>> /\ yolo_calls[k].result /= <<0>>}}

\* C12: as long as clear_yolo_cache has not been called, under any
\* interleaving of get_yolo_model calls the model is loaded at most once
\* and all calls that return a model return the same instance.
C12_LoadedOnce ==
    yolo_clears = 0 => (yolo_loads <= 1 /\ Cardinality(YoloReturned) <= 1)

(***************************************************************************)
(* ContactDetector (contact_detector.py).  Numbers: a bat angle is a whole *)
(* number of degrees and fps a whole number, so an angular velocity is a   *)
(* whole number of degrees per second; positions have integer coordinates  *)
(* chosen so that distances are whole numbers; a confidence is a whole     *)
(* number of 1/6000 (ball velocities are averaged over up to 3 frames).    *)
(* None is <<>> and a value v that may be None is <<v>>.  An operator that *)
(* can raise returns [raised |-> TRUE] or [raised |-> FALSE, value |-> v]. *)
(***************************************************************************)
None == <<>>

Some(v) == <<v>>

Raised == [raised |-> TRUE]

Returned(v) == [raised |-> FALSE, value |-> v]

Abs(x) == IF x < 0 THEN -x ELSE x

\* ContactDetector.__init__ defaults, line 15
PROXIMITY_THRESHOLD == 50
VELOCITY_THRESHOLD == 5

\* the confidence that detect_contact compares with, 0.3 (line 75), and the
\* weights of _calculate_confidence, in 1/6000
CONF_UNIT == 6000
MIN_CONFIDENCE == 1800

\* lines 98-104: the difference of two angles, normalized to [-180, 180]
AngleDiff(a, b) ==
    LET d == a - b IN
    IF d > 180 THEN d - 360 ELSE IF d < -180 THEN d + 360 ELSE d

\* _calculate_angular_velocity, lines 88-112: angles[i] - angles[i-1] raises
\* TypeError when either is None
_calculate_angular_velocity(angles, fps) ==
    IF Len(angles) < 2 THEN Returned(<<0>>)
    ELSE IF \E i \in 1..Len(angles) : angles[i] = None THEN Raised
    ELSE Returned([i \in 1..Len(angles) |->
                      IF i = 1 THEN 0
                      ELSE Abs(AngleDiff(angles[i][1], angles[i-1][1])) * (IF fps > 0 THEN fps ELSE 1)])

SeqMax(v) == CHOOSE m \in Range(v) : \A x \in Range(v) : x <= m

\* np.argmax: the first position of the maximum
ArgMax(v) == CHOOSE i \in 1..Len(v) : v[i] = SeqMax(v) /\ \A j \in 1..(i-1) : v[j] < v[i]

\* scipy.signal.find_peaks: the local maxima of v, a flat top counted once
\* at its middle; the first and the last sample are never peaks
LocalMaxima(v) ==
    {(l + r) \div 2 : <<l, r>> \in
        {lr \in (2..(Len(v)-1)) \X (2..(Len(v)-1)) :
            /\ lr[1] <= lr[2]
            /\ \A k \in lr[1]..lr[2] : v[k] = v[lr[1]]
            /\ v[lr[1] - 1] < v[lr[1]]
            /\ v[lr[2] + 1] < v[lr[1]]}}

\* find_peaks(velocities, height=np.max(velocities) * 0.5, distance=5), line
\* 121, followed by the choice of the highest peak, lines 123-127.  The
\* distance rule keeps the higher of two peaks closer than 5 samples, and
\* of two equally high ones the later; a sequence of the lengths modelled
\* here has all its peaks closer than 5 samples.
HighestPeak(v) ==
    LET peaks == {p \in LocalMaxima(v) : 2 * v[p] >= SeqMax(v)}
        top == {p \in peaks : \A q \in peaks : v[q] <= v[p]}
    IN IF peaks = {} THEN None
       ELSE Some(CHOOSE p \in top : \A q \in top : q <= p)

\* _find_peak_velocity, lines 114-136; positions are 1-based here, frame
\* numbers are positions minus one
_find_peak_velocity(v) ==
    IF Len(v) = 0 THEN None
    ELSE IF HighestPeak(v) /= None THEN HighestPeak(v)
    ELSE IF v[ArgMax(v)] > 0 THEN Some(ArgMax(v))
    ELSE None

\* the whole number whose square is n (the positions modelled give squares)
ISqrt(n) == CHOOSE r \in 0..200 : r * r <= n /\ n < (r + 1) * (r + 1)

\* _check_proximity, lines 138-164; pos is a 1-based position
_check_proximity(pos, bat_positions, ball_positions) ==
    IF pos > Len(bat_positions) \/ pos > Len(ball_positions) THEN None
    ELSE IF bat_positions[pos] = None \/ ball_positions[pos] = None THEN None
    ELSE IF ball_positions[pos][1].center = None THEN None
    ELSE LET b == bat_positions[pos][1]
             c == ball_positions[pos][1].center[1]
             distance == ISqrt((b[1] - c[1]) * (b[1] - c[1]) + (b[2] - c[2]) * (b[2] - c[2]))
         IN Some([distance |-> distance, within_threshold |-> distance <= PROXIMITY_THRESHOLD])

RECURSIVE SumOver(_, _)
SumOver(f, S) == IF S = {} THEN 0 ELSE LET x == CHOOSE y \in S : TRUE IN f[x] + SumOver(f, S \ {x})

\* np.mean of the ball velocities at the positions S, times 6; 0 for none
Mean6(ball_positions, S) ==
    LET have == {i \in S : i >= 1 /\ i <= Len(ball_positions) /\ ball_positions[i] /= None}
    IN IF have = {} THEN 0
       ELSE (6 * SumOver([i \in have |-> ball_positions[i][1].velocity], have)) \div Cardinality(have)

\* _check_velocity_change, lines 166-202: six times the change of the mean
\* ball velocity from the 3 frames before to the 3 frames after, None when
\* it is below the threshold; pos is a 1-based position
_check_velocity_change(pos, ball_positions) ==
    IF pos >= Len(ball_positions) THEN None
    ELSE LET change6 == Mean6(ball_positions, Max2(1, pos - 3)..(pos - 1))
                        * (-1) + Mean6(ball_positions, (pos + 1)..Min2(Len(ball_positions), pos + 3))
         IN IF Abs(change6) >= 6 * VELOCITY_THRESHOLD THEN Some(change6) ELSE None

\* faulty variant: the angular velocity weighs half as much
_calculate_confidence_HalfWeight(angular_velocity, proximity_check, velocity_change) ==
    LET vel == IF angular_velocity > 0 THEN 24 * Min2(50, angular_velocity) ELSE 0
        prox == IF proximity_check = None THEN 0
                ELSE IF proximity_check[1].within_threshold
                     THEN 48 * (PROXIMITY_THRESHOLD - Min2(PROXIMITY_THRESHOLD, proximity_check[1].distance))
                     ELSE 600
        chg == IF velocity_change /= None /\ velocity_change[1] > 0
               THEN 20 * Min2(12 * VELOCITY_THRESHOLD, velocity_change[1])
               ELSE 0
    IN Min2(CONF_UNIT, vel + prox + chg)

\* _calculate_confidence, lines 204-234, in 1/6000
_calculate_confidence(angular_velocity, proximity_check, velocity_change) ==
    LET vel == IF angular_velocity > 0 THEN 48 * Min2(50, angular_velocity) ELSE 0
        prox == IF proximity_check = None THEN 0
                ELSE IF proximity_check[1].within_threshold
                     THEN 48 * (PROXIMITY_THRESHOLD - Min2(PROXIMITY_THRESHOLD, proximity_check[1].distance))
                     ELSE 600
        chg == IF velocity_change /= None /\ velocity_change[1] > 0
               THEN 20 * Min2(12 * VELOCITY_THRESHOLD, velocity_change[1])
               ELSE 0
    IN Min2(CONF_UNIT, vel + prox + chg)

\* detect_contact, lines 26-86
detect_contact(bat_angles, bat_positions, ball_positions, fps) ==
    IF Len(bat_angles) < 3 THEN Returned(None)
    ELSE LET av == _calculate_angular_velocity(bat_angles, fps) IN
         IF av.raised THEN Raised
         ELSE LET peak_pos == _find_peak_velocity(av.value) IN
              IF peak_pos = None THEN Returned(None)
              ELSE LET p == peak_pos[1]
                       confidence == _calculate_confidence(
                                        av.value[p],
                                        _check_proximity(p, bat_positions, ball_positions),
                                        _check_velocity_change(p, ball_positions))
                   IN IF confidence > MIN_CONFIDENCE
                      THEN Returned(Some([frame |-> p - 1, confidence |-> confidence,
                                          angular_velocity |-> av.value[p]]))
                      ELSE Returned(None)

\* the calls of detect_contact modelled: bat angles from AngleChoices, a
\* frame rate, and one of three pictures of bat and ball: nothing detected;
\* bat at (0,0) and a resting ball at (18,24), 30 pixels away; bat at (0,0)
\* and a ball at (60,80), 100 pixels away, faster in every frame
AngleChoices == {0, 1, 3, 4, -178}

FpsChoices == {10, 30}

SceneChoices == {"none", "near", "far"}

RECURSIVE SeqsUpTo(_, _)
SeqsUpTo(S, n) ==
    IF n = 0 THEN {<<>>}
    ELSE LET shorter == SeqsUpTo(S, n - 1)
         IN shorter \cup {Append(s, x) : s \in {t \in shorter : Len(t) = n - 1}, x \in S}

AngleLists == {s \in SeqsUpTo(AngleChoices, MaxAngles) : Len(s) >= 2}

SceneBat(scene, n) == [i \in 1..n |-> IF scene = "none" THEN None ELSE Some(<<0, 0>>)]

SceneBall(scene, n) ==
    [i \in 1..n |->
        CASE scene = "none" -> None
          [] scene = "near" -> Some([center |-> Some(<<18, 24>>), velocity |-> 0])
          [] scene = "far" -> Some([center |-> Some(<<60, 80>>), velocity |-> 4 * i])]

ContactInputs ==
    {[angles |-> angles, fps |-> fps, scene |-> scene] :
        angles \in AngleLists, fps \in FpsChoices, scene \in SceneChoices}

\* the call of ContactDetector.detect_contact on cd_input, every bat angle
\* present
DetectContact ==
    /\ cd_result = None
    /\ cd_result' = Some(detect_contact(
                            [i \in 1..Len(cd_input.angles) |-> Some(cd_input.angles[i])],
                            SceneBat(cd_input.scene, Len(cd_input.angles)),
                            SceneBall(cd_input.scene, Len(cd_input.angles)),
                            cd_input.fps))
    /\ UNCHANGED cd_input
    /\ UNCHANGED notContact

InitContact ==
    /\ cfg = PersonConfig(TRUE)
    /\ InitBase
    /\ InitExt("contact")
    /\ cd_input \in ContactInputs
    /\ cd_result = None

NextContact == DetectContact

SpecContact == InitContact /\ [][NextContact]_vars

\* the angular velocities of the last call
CdVelocities ==
    _calculate_angular_velocity([i \in 1..Len(cd_input.angles) |-> Some(cd_input.angles[i])],
                                cd_input.fps).value

\* v rises strictly up to position m and falls strictly after it, and m is
\* neither the first nor the last position
SinglePeakAt(v, m) ==
    /\ m > 1 /\ m < Len(v)
    /\ \A i \in 1..(m - 1) : v[i] < v[i + 1]
    /\ \A i \in m..(Len(v) - 1) : v[i] > v[i + 1]

CdCalled == cd_input /= None /\ cd_result /= None /\ Len(cd_input.angles) >= 3

\* what the call returned
CdValue == cd_result[1].value

CdRaised == cd_result[1].raised

\* C16 as stated: for at least 3 bat angles whose angular velocity rises
\* and then falls with a single maximum, detect_contact returns the frame
\* of the maximum with confidence above 0.3.
C16_PeakReturnedAsStated ==
    CdCalled =>
        \A m \in 1..Len(cd_input.angles) :
            SinglePeakAt(CdVelocities, m) =>
                /\ ~CdRaised
                /\ CdValue /= None
                /\ CdValue[1].frame = m - 1
                /\ CdValue[1].confidence > MIN_CONFIDENCE

\* C16, amended: for such angles detect_contact never returns another
\* frame than the frame of the maximum, with confidence above 0.3; it
\* returns that frame whenever the maximum is above 37.5 degrees per second
\* (without that it returns None unless bat and ball proximity or a ball
\* velocity change lift the confidence above 0.3).
C16_PeakReturnedWhenFast ==
    CdCalled =>
        \A m \in 1..Len(cd_input.angles) :
            SinglePeakAt(CdVelocities, m) =>
                /\ ~CdRaised
                /\ CdValue /= None =>
                        /\ CdValue[1].frame = m - 1
                        /\ CdValue[1].confidence > MIN_CONFIDENCE
                /\ 2 * CdVelocities[m] > 75 => CdValue /= None

\* the velocities 0, 30, 60, 30 of the angles 0, 1, 3, 4 at 30 frames per
\* second give frame 2
C16_Witness ==
    /\ CdCalled
    /\ SinglePeakAt(CdVelocities, 3)
    /\ ~CdRaised
    /\ CdValue /= None
    /\ CdValue[1].frame = 2

(***************************************************************************)
(* VideoAnalyzer.analyze_video_from_path (video_analyzer.py), constructed  *)
(* with its defaults (processing_mode 'full', no max_frames, tracking      *)
(* coordinator on).  The video is the list of what the detectors give for  *)
(* each frame:                                                             *)
(*   processed  FALSE when a detector raises inside _process_frame         *)
(*   pose       the pose detector found landmarks                          *)
(*   bat        None, or the bat angle of the bat detector                 *)
(*   ball       the ball detector found a ball                             *)
(* A stage of the analysis is modelled by whether it raises (va_input.fault*)
(* names the stage made to raise, "none" for no stage) and by the shape of *)
(* what it returns; contact detection is ContactDetector.detect_contact.   *)
(***************************************************************************)
FramePatterns ==
    {[processed |-> FALSE, pose |-> FALSE, bat |-> None, ball |-> FALSE]} \cup
    {[processed |-> TRUE, pose |-> pose, bat |-> bat, ball |-> ball] :
        pose \in BOOLEAN, bat \in {None, Some(10)}, ball \in BOOLEAN}

\* the stages of lines 205-295, in order; the last two are the two halves
\* of the tracking quality: the coordinator's and the one computed from the
\* frames
Stages == {"contact", "metrics", "form", "phases", "biomechanics", "form_errors",
           "tracking_coordinator", "tracking_frames"}

\* dict.get(key): None for a key the dict does not have
DictGet(d, key) == IF key \in DOMAIN d THEN d[key] ELSE None

\* _process_frame, lines 360-514: the dict of one frame, None when a
\* detector raised (lines 512-514)
_process_frame(pat, frame_idx) ==
    IF ~pat.processed THEN None
    ELSE Some([frameIndex |-> Some(frame_idx),
               pose_landmarks |-> IF pat.pose THEN Some("landmarks") ELSE None,
               batAngle |-> pat.bat,
               batPosition |-> IF pat.bat /= None THEN Some(<<0, 0>>) ELSE None,
               ball |-> IF pat.ball THEN Some([center |-> Some(<<18, 24>>), velocity |-> 0])
                        ELSE None])

\* lines 140-201: the lists collected from the frames
RECURSIVE CollectFrames(_, _, _)
CollectFrames(video, i, acc) ==
    IF i > Len(video) THEN acc
    ELSE LET frame_result == _process_frame(video[i], i - 1) IN
         IF frame_result = None THEN CollectFrames(video, i + 1, acc)
         ELSE LET fr == frame_result[1]
                  has_angle == DictGet(fr, "bat_angle") /= None
              IN CollectFrames(video, i + 1,
                    [frames_data |-> Append(acc.frames_data, fr),
                     bat_angles |-> Append(acc.bat_angles, DictGet(fr, "bat_angle")),
                     bat_positions |-> Append(acc.bat_positions,
                                        IF has_angle THEN DictGet(fr, "bat_position") ELSE None),
                     ball_positions |-> Append(acc.ball_positions, DictGet(fr, "ball")),
                     pose_landmarks_list |-> Append(acc.pose_landmarks_list,
                                                    DictGet(fr, "pose_landmarks"))])

NoFrames == [frames_data |-> <<>>, bat_angles |-> <<>>, bat_positions |-> <<>>,
             ball_positions |-> <<>>, pose_landmarks_list |-> <<>>]

\* _calculate_aggregated_metrics, lines 516-679: without a usable bat angle
\* the dict has hasValidData False
_calculate_aggregated_metrics(bat_angles, contact_frame) ==
    IF bat_angles = <<>> \/ \A i \in 1..Len(bat_angles) : bat_angles[i] = None
    THEN [hasValidData |-> FALSE]
    ELSE IF contact_frame = None /\ ~\E i \in 2..Len(bat_angles) :
                                        /\ bat_angles[i] /= None /\ bat_angles[i-1] /= None
                                        /\ bat_angles[i] /= bat_angles[i-1]
    THEN [hasValidData |-> FALSE]
    ELSE [hasValidData |-> TRUE]

\* lines 353-358: the except of the whole method
Failed == [ok |-> FALSE]

\* analyze_video_from_path, lines 111-358
analyze_video_from_path(input) ==
    IF ~input.opened THEN Failed
    ELSE
    LET c == CollectFrames(input.video, 1, NoFrames)
        fault == input.fault
        contact == IF fault = "contact" THEN Raised
                   ELSE detect_contact(c.bat_angles, c.bat_positions, c.ball_positions, 30)
    IN
    IF contact.raised \/ fault \in {"metrics", "form"} THEN Failed
    ELSE
    LET contact_frame == IF contact.value /= None THEN Some(contact.value[1].frame) ELSE None
        coordinator_quality ==
            IF fault = "tracking_coordinator" THEN None
            ELSE Some([overallScore |-> IF input.coordinator_scores THEN 1 ELSE 0])
        from_frames ==
            coordinator_quality = None \/ coordinator_quality[1].overallScore = 0
        \* _calculate_tracking_quality_from_frames, lines 681-741: the score
        \* is positive when some frame has pose_landmarks or a ball center
        \* (the frames have no 'bat_angle' or 'bat_position' key)
        frame_score == IF c.frames_data = <<>> THEN 0
                       ELSE IF \E i \in 1..Len(c.frames_data) :
                                   c.frames_data[i].pose_landmarks /= None
                                   \/ c.frames_data[i].ball /= None
                            THEN 1 ELSE 0
    IN
    IF from_frames /\ fault = "tracking_frames" THEN Failed
    ELSE [ok |-> TRUE,
          contactFrame |-> contact_frame,
          contact |-> contact.value,
          metrics |-> Some(_calculate_aggregated_metrics(c.bat_angles, contact_frame)),
          formAnalysis |-> IF c.pose_landmarks_list = <<>> THEN Some("empty") ELSE Some("form"),
          swingPhases |-> IF fault = "phases" THEN None ELSE Some("phases"),
          biomechanics |-> IF fault = "biomechanics" THEN None ELSE Some("biomechanics"),
          formErrors |-> IF fault = "form_errors" THEN None ELSE Some("form_errors"),
          trackingQuality |->
              IF from_frames /\ (coordinator_quality = None \/ frame_score > 0)
              THEN Some([overallScore |-> frame_score])
              ELSE coordinator_quality,
          frames |-> Len(c.frames_data)]

VideoInputs ==
    {[opened |-> opened, video |-> video, fault |-> fault, coordinator_scores |-> cs] :
        opened \in BOOLEAN, video \in SeqsUpTo(FramePatterns, MaxVideoFrames),
        fault \in Stages \cup {"none"}, cs \in BOOLEAN}

\* one call of analyze_video_from_path on va_input
AnalyzeVideo ==
    /\ va_response = None
    /\ va_response' = Some(analyze_video_from_path(va_input))
    /\ UNCHANGED va_input
    /\ UNCHANGED notAnalyze

InitAnalyze ==
    /\ cfg = PersonConfig(TRUE)
    /\ InitBase
    /\ InitExt("analyze")
    /\ va_input \in VideoInputs
    /\ va_response = None

NextAnalyze == AnalyzeVideo

SpecAnalyze == InitAnalyze /\ [][NextAnalyze]_vars

\* C13: when one stage of the analysis raises (contact detection,
\* aggregated metrics, form metrics, swing phases, biomechanics, form
\* errors, tracking quality), the call still answers ok = True.  Stated
\* for videos of fewer than 3 frames, on which contact detection returns
\* before it computes anything, so that the only exception is the stage's.
C13_StageErrorsCaught ==
    (va_response /= None /\ va_input.opened /\ va_input.fault \in Stages
        /\ Len(va_input.video) < 3)
        => va_response[1].ok

\* C14: whatever the frames give for bat, ball and pose, None or not, and
\* with no stage made to raise, the analysis completes with ok = True.
C14_NoneNeverAborts ==
    (va_response /= None /\ va_input.opened /\ va_input.fault = "none")
        => va_response[1].ok

(***************************************************************************)
(* try_parse (swing_detection_service.py lines 66-108, the same code in    *)
(* scripts/detect_swings.py).  A payload is a sequence of bytes 0..255, a  *)
(* signed 16-bit value is packed as in struct.pack("<h") / (">h"): two's   *)
(* complement, low byte first / high byte first.                           *)
(***************************************************************************)
ToU16(v) == (v + 65536) % 65536

FromU16(u) == IF u >= 32768 THEN u - 65536 ELSE u

\* struct.pack("<h", v) and struct.pack(">h", v)
PackI16LE(v) == <<ToU16(v) % 256, ToU16(v) \div 256>>

PackI16BE(v) == <<ToU16(v) \div 256, ToU16(v) % 256>>

RECURSIVE PackLE(_)
PackLE(values) ==
    IF values = <<>> THEN <<>> ELSE PackI16LE(Head(values)) \o PackLE(Tail(values))

RECURSIVE PackBE(_)
PackBE(values) ==
    IF values = <<>> THEN <<>> ELSE PackI16BE(Head(values)) \o PackBE(Tail(values))

\* faulty variant: the values are read as unsigned
unpack_i16_le_Unsigned(buf) ==
    IF Len(buf) % 2 = 1 THEN None
    ELSE Some([i \in 1..(Len(buf) \div 2) |-> buf[2 * i - 1] + 256 * buf[2 * i]])

\* unpack_i16_le, lines 66-72: None for an odd length, else the tuple of
\* the values
unpack_i16_le(buf) ==
    IF Len(buf) % 2 = 1 THEN None
    ELSE Some([i \in 1..(Len(buf) \div 2) |-> FromU16(buf[2 * i - 1] + 256 * buf[2 * i])])

\* unpack_i16_be, lines 74-80
unpack_i16_be(buf) ==
    IF Len(buf) % 2 = 1 THEN None
    ELSE Some([i \in 1..(Len(buf) \div 2) |-> FromU16(256 * buf[2 * i - 1] + buf[2 * i])])

\* "v and len(v) >= 6": v is neither None nor the empty tuple and has six
\* values
SixValues(v) == v /= None /\ Len(v[1]) >= 6

ParsedDict(v) == [ax |-> v[1], ay |-> v[2], az |-> v[3], gx |-> v[4], gy |-> v[5], gz |-> v[6]]

\* try_parse, lines 82-108: the dict, or None
try_parse(payload) ==
    IF SixValues(unpack_i16_le(payload))
    THEN Some(ParsedDict(unpack_i16_le(payload)[1]))
    ELSE IF Len(payload) >= 13 /\ SixValues(unpack_i16_le(Tail(payload)))
    THEN Some(ParsedDict(unpack_i16_le(Tail(payload))[1]))
    ELSE IF SixValues(unpack_i16_be(payload))
    THEN Some(ParsedDict(unpack_i16_be(payload)[1]))
    ELSE IF Len(payload) >= 12
    THEN LET g == unpack_i16_le(SubSeq(payload, 7, 12))[1]
         IN Some([ax |-> 0, ay |-> 0, az |-> 0, gx |-> g[1], gy |-> g[2], gz |-> g[3]])
    ELSE None

\* the payloads modelled: the little-endian packing of six values, and for
\* the other branches of try_parse the same values behind a 1-byte prefix,
\* packed big-endian, with a byte appended, and cut to 11, 6 and 0 bytes
Int16Choices == {-32768, -1, 0, 1, 256, 32767}

SixTuples == [1..6 -> Int16Choices]

ParseInputs ==
    {[values |-> Some(vals), payload |-> PackLE(vals)] : vals \in SixTuples}
    \cup {[values |-> None, payload |-> p] :
            p \in UNION {{<<7>> \o PackLE(vals),
                          PackBE(vals),
                          PackLE(vals) \o <<7>>,
                          SubSeq(PackLE(vals), 1, 11),
                          SubSeq(PackLE(vals), 1, 6),
                          <<>>} : vals \in {<<1, -1, 256, 0, -32768, 32767>>,
                                            <<0, 0, 0, 0, 0, 0>>}}}

\* one call of try_parse on tp_input.payload
TryParse ==
    /\ tp_result = None
    /\ tp_result' = Some(try_parse(tp_input.payload))
    /\ UNCHANGED tp_input
    /\ UNCHANGED notParse

InitParse ==
    /\ cfg = PersonConfig(TRUE)
    /\ InitBase
    /\ InitExt("parse")
    /\ tp_input \in ParseInputs
    /\ tp_result = None

NextParse == TryParse

SpecParse == InitParse /\ [][NextParse]_vars

\* C15: try_parse applied to the 12-byte little-endian packing of six
\* signed 16-bit values returns the dict with exactly those values under
\* ax, ay, az, gx, gy, gz.
C15_RoundTripLE ==
    (tp_result /= None /\ tp_input.values /= None) =>
        /\ Len(tp_input.payload) = 12
        /\ tp_result[1] = Some(ParsedDict(tp_input.values[1]))

\* the extreme values and a value with a zero low byte came back
C15_Witness ==
    /\ tp_result /= None /\ tp_input.values /= None
    /\ tp_input.values[1] = [i \in 1..6 |-> <<-32768, -1, 256, 32767, 1, 0>>[i]]
    /\ tp_result[1] /= None
    /\ tp_result[1][1].ax = -32768 /\ tp_result[1][1].az = 256

(***************************************************************************)
(* SwingPhaseDetector (swing_phase_detector.py).  A pose is None or a      *)
(* record: n landmarks, of which the model places, in pixels,              *)
(*   left_wrist (0, wy)      right_wrist (rwx, wy)                         *)
(*   left_elbow (0, ey)      right_elbow (0, ey)                           *)
(*   left_knee (0, 0)        right_knee (knee, 0)                          *)
(*   left_ankle (0, 0)       right_ankle (ankle, 0)                        *)
(* and every other landmark at (0, 0).  A metrics dict is a record whose   *)
(* absent keys are None; of the keys of _calculate_phase_metrics it keeps  *)
(* those that _classify_phase or a later frame reads.  A confidence is a   *)
(* whole number of hundredths.                                             *)
(***************************************************************************)
PHASE_HISTORY_CAP == 10
METRICS_HISTORY_CAP == 30
MIN_LANDMARKS == 20
MIN_KEY_LANDMARKS == 8
CONTACT_DISTANCE == 50
STRIDE_ANKLE_SEP == 100
STRIDE_KNEE_SEP == 80
LOAD_MARGIN == 20

\* landmark_map, lines 161-175
landmark_map ==
    [nose |-> 0, left_shoulder |-> 11, right_shoulder |-> 12, left_elbow |-> 13,
     right_elbow |-> 14, left_wrist |-> 15, right_wrist |-> 16, left_hip |-> 23,
     right_hip |-> 24, left_knee |-> 25, right_knee |-> 26, left_ankle |-> 27,
     right_ankle |-> 28]

\* the place of a landmark of the pose
LandmarkAt(pose, name) ==
    CASE name = "left_wrist" -> [x |-> 0, y |-> pose.wy]
      [] name = "right_wrist" -> [x |-> pose.rwx, y |-> pose.wy]
      [] name \in {"left_elbow", "right_elbow"} -> [x |-> 0, y |-> pose.ey]
      [] name = "right_knee" -> [x |-> pose.knee, y |-> 0]
      [] name = "right_ankle" -> [x |-> pose.ankle, y |-> 0]
      [] OTHER -> [x |-> 0, y |-> 0]

\* _extract_landmarks, lines 157-200: the key landmarks whose index is below
\* the number of landmarks; None when fewer than 8 are there
_extract_landmarks(pose) ==
    LET names == {name \in DOMAIN landmark_map : landmark_map[name] < pose.n}
    IN IF Cardinality(names) >= MIN_KEY_LANDMARKS
       THEN Some([name \in names |-> LandmarkAt(pose, name)])
       ELSE None

\* landmarks.get(name)
LandmarkGet(landmarks, name) ==
    IF name \in DOMAIN landmarks THEN Some(landmarks[name]) ELSE None

\* _calculate_phase_metrics, lines 202-282, and metrics['frame'], line 73
_calculate_phase_metrics(landmarks, bat_angle, bat_position, ball_position, history, frame_idx) ==
    LET left_wrist == LandmarkGet(landmarks, "left_wrist")
        right_wrist == LandmarkGet(landmarks, "right_wrist")
        left_elbow == LandmarkGet(landmarks, "left_elbow")
        right_elbow == LandmarkGet(landmarks, "right_elbow")
        left_knee == LandmarkGet(landmarks, "left_knee")
        right_knee == LandmarkGet(landmarks, "right_knee")
        left_ankle == LandmarkGet(landmarks, "left_ankle")
        right_ankle == LandmarkGet(landmarks, "right_ankle")
        wrists == left_wrist /= None /\ right_wrist /= None
        elbows == left_elbow /= None /\ right_elbow /= None
        avg_wrist_y == IF wrists THEN Some((left_wrist[1].y + right_wrist[1].y) \div 2) ELSE None
        avg_elbow_y == IF elbows THEN Some((left_elbow[1].y + right_elbow[1].y) \div 2) ELSE None
        ball_center == IF ball_position /= None THEN ball_position[1].center ELSE None
        bat_x == IF bat_position /= None THEN Some(bat_position[1][1]) ELSE None
        prev == IF history /= <<>> THEN Some(history[Len(history)]) ELSE None
    IN [frame |-> frame_idx,
        avg_wrist_y |-> avg_wrist_y,
        wrist_forward |-> IF wrists THEN Some(right_wrist[1].x) ELSE None,
        avg_elbow_y |-> avg_elbow_y,
        wrists_above_elbows |-> IF wrists /\ elbows THEN Some(avg_wrist_y[1] < avg_elbow_y[1])
                                ELSE None,
        knee_separation |-> IF left_knee /= None /\ right_knee /= None
                            THEN Some(Abs(left_knee[1].x - right_knee[1].x)) ELSE None,
        ankle_separation |-> IF left_ankle /= None /\ right_ankle /= None
                             THEN Some(Abs(left_ankle[1].x - right_ankle[1].x)) ELSE None,
        bat_angle |-> bat_angle,
        bat_x |-> bat_x,
        ball_x |-> IF ball_center /= None THEN Some(ball_center[1][1]) ELSE None,
        ball_detected |-> ball_center /= None,
        wrist_y_velocity |-> IF prev /= None /\ avg_wrist_y /= None /\ prev[1].avg_wrist_y /= None
                             THEN Some(avg_wrist_y[1] - prev[1].avg_wrist_y[1]) ELSE None,
        bat_x_velocity |-> IF prev /= None /\ bat_x /= None /\ prev[1].bat_x /= None
                           THEN Some(bat_x[1] - prev[1].bat_x[1]) ELSE None]

\* "if x": a number that is there and not zero
Truthy(opt) == opt /= None /\ opt[1] /= 0

\* metrics.get(key, 0)
GetOr0(opt) == IF opt = None THEN 0 ELSE opt[1]

\* lines 290-298: the contact rule
ContactFires(metrics) ==
    /\ metrics.ball_detected
    /\ Truthy(metrics.bat_x)
    /\ Truthy(metrics.ball_x)
    /\ Abs(metrics.ball_x[1] - metrics.bat_x[1]) < CONTACT_DISTANCE

\* faulty variant: follow-through does not look at the history
ContactRecently_Ignored(history) == history = history

\* lines 305-307: contact is among the last 3 entries of phase_history
ContactRecently(history) ==
    \E i \in Max2(1, Len(history) - 2)..Len(history) : history[i] = "contact"

\* lines 301-310: the follow-through rule
FollowThroughFires(metrics, history) ==
    /\ GetOr0(metrics.wrist_forward) > 0
    /\ metrics.bat_angle /= None
    /\ ContactRecently(history)

\* lines 313-318: the stride rule
StrideFires(metrics) ==
    \/ GetOr0(metrics.ankle_separation) > STRIDE_ANKLE_SEP
    \/ GetOr0(metrics.knee_separation) > STRIDE_KNEE_SEP

\* lines 321-327: the load rule
LoadFires(metrics) ==
    /\ metrics.wrists_above_elbows = Some(TRUE)
    /\ GetOr0(metrics.avg_wrist_y) < GetOr0(metrics.avg_elbow_y) - LOAD_MARGIN

\* faulty variant: always stance
DefaultPhase_AlwaysStance(history) == [phase |-> "stance", confidence |-> 60]

\* lines 329-337: stance, or the previous phase
DefaultPhase(history) ==
    IF history = <<>> \/ \A i \in 1..Len(history) : history[i] = "stance"
    THEN [phase |-> "stance", confidence |-> 60]
    ELSE [phase |-> history[Len(history)], confidence |-> 50]

\* _classify_phase, lines 284-339
_classify_phase(metrics, history) ==
    IF ContactFires(metrics) THEN [phase |-> "contact", confidence |-> 90]
    ELSE IF FollowThroughFires(metrics, history) THEN [phase |-> "follow_through", confidence |-> 80]
    ELSE IF StrideFires(metrics) THEN [phase |-> "stride", confidence |-> 70]
    ELSE IF LoadFires(metrics) THEN [phase |-> "load", confidence |-> 75]
    ELSE DefaultPhase(history)

\* faulty variant: the newest entry is dropped instead of the oldest
AppendCapped_DropNewest(list, x, cap) ==
    IF Len(list) + 1 > cap THEN list ELSE Append(list, x)

\* append, then pop(0) when the list is longer than cap (lines 74-76, 82-84)
AppendCapped(list, x, cap) ==
    IF Len(list) + 1 > cap THEN Tail(Append(list, x)) ELSE Append(list, x)

\* lines 50 and 62: the landmarks can be used
Usable(pose) ==
    pose /= None /\ pose[1].n >= MIN_LANDMARKS /\ _extract_landmarks(pose[1]) /= None

\* detect_phase, lines 29-91, on the frame the script gives for this call
detect_phase(frame, frame_idx) ==
    IF ~Usable(frame.pose)
    THEN /\ ph_result' = [phase |-> "unknown", confidence |-> 0, frame |-> frame_idx,
                          metrics |-> None]
         /\ UNCHANGED <<phase_history, frame_metrics_history>>
    ELSE LET metrics == _calculate_phase_metrics(_extract_landmarks(frame.pose[1])[1],
                            frame.bat_angle, frame.bat_position, frame.ball_position,
                            frame_metrics_history, frame_idx)
             classified == _classify_phase(metrics, phase_history)
         IN /\ frame_metrics_history' = AppendCapped(frame_metrics_history, metrics,
                                                     METRICS_HISTORY_CAP)
            /\ phase_history' = AppendCapped(phase_history, classified.phase, PHASE_HISTORY_CAP)
            /\ ph_result' = [phase |-> classified.phase, confidence |-> classified.confidence,
                             frame |-> frame_idx, metrics |-> Some(metrics)]

\* the poses modelled: 19 landmarks (too few), 20 landmarks (only 7 of the
\* key landmarks), and 33 landmarks standing, with the right wrist forward,
\* striding, and loaded
Pose(n, rwx, wy, ey, knee, ankle) ==
    Some([n |-> n, rwx |-> rwx, wy |-> wy, ey |-> ey, knee |-> knee, ankle |-> ankle])

PoseChoices ==
    {None,
     Pose(19, 300, 100, 100, 40, 50),
     Pose(20, 300, 100, 100, 40, 50),
     Pose(33, 0, 100, 100, 40, 50),
     Pose(33, 300, 100, 100, 40, 50),
     Pose(33, 300, 100, 100, 40, 150),
     Pose(33, 300, 50, 100, 40, 50)}

\* the bat and ball of a frame: none; bat at x = 100 alone; bat at x = 100
\* and ball at x = 130; bat at x = 0 and ball at x = 10; bat at x = 100 and
\* ball at x = 400
BatBall(bat_angle, bat_position, ball_position) ==
    [bat_angle |-> bat_angle, bat_position |-> bat_position, ball_position |-> ball_position]

BallAt(x) == Some([center |-> Some(<<x, 200>>)])

BatBallChoices ==
    {BatBall(None, None, None),
     BatBall(Some(45), Some(<<100, 200>>), None),
     BatBall(Some(45), Some(<<100, 200>>), BallAt(130)),
     BatBall(Some(45), Some(<<0, 200>>), BallAt(10)),
     BatBall(None, Some(<<100, 200>>), BallAt(400))}

FrameChoices ==
    {[pose |-> pose, bat_angle |-> bb.bat_angle, bat_position |-> bb.bat_position,
      ball_position |-> bb.ball_position] : pose \in PoseChoices, bb \in BatBallChoices}

\* the frames given to one detector: a script of 1 to 2 frames, repeated
PhaseScripts == SeqsUpTo(FrameChoices, 2) \ {<<>>}

ScriptFrame(k) == ph_script[((k - 1) % Len(ph_script)) + 1]

\* one call of detect_phase, with frame_idx counting the calls from 0 as in
\* detect_phases_sequence (lines 117-125)
DetectPhase ==
    /\ Len(ph_log) < MaxPhaseCalls
    /\ detect_phase(ScriptFrame(Len(ph_log) + 1), Len(ph_log))
    /\ ph_log' = Append(ph_log, [frame |-> Len(ph_log),
                                 usable |-> Usable(ScriptFrame(Len(ph_log) + 1).pose),
                                 phase |-> ph_result'.phase])
    /\ UNCHANGED ph_script
    /\ UNCHANGED notPhase

InitPhase ==
    /\ cfg = PersonConfig(TRUE)
    /\ InitBase
    /\ InitExt("phase")
    /\ ph_script \in PhaseScripts
    /\ phase_history = <<>>
    /\ frame_metrics_history = <<>>
    /\ ph_result = None
    /\ ph_log = <<>>

NextPhase == DetectPhase

SpecPhase == InitPhase /\ [][NextPhase]_vars

\* the frame of the call being made, and whether its landmarks can be used
CallFrame == ScriptFrame(Len(ph_log) + 1)

\* the frame of the last call made
LastFrame == ScriptFrame(Len(ph_log))

IsPhaseCall == ph_log' /= ph_log

PhLast(list) == list[Len(list)]

\* bat and ball positions are there and closer than the contact threshold
\* (measured along x, as the detector measures it)
ContactCondition(frame) ==
    /\ frame.bat_position /= None
    /\ frame.ball_position /= None
    /\ frame.ball_position[1].center /= None
    /\ Abs(frame.ball_position[1].center[1][1] - frame.bat_position[1][1]) < CONTACT_DISTANCE

C17_Step ==
    Usable(CallFrame.pose) =>
        LET m == ph_result'.metrics[1]
            r == ph_result'.phase
            contact == ContactCondition(CallFrame)
            follow == FollowThroughFires(m, phase_history)
            stride == StrideFires(m)
            load == LoadFires(m)
        IN /\ contact => r = "contact"
           /\ (~contact /\ follow) => r = "follow_through"
           /\ (~contact /\ ~follow /\ stride) => r = "stride"
           /\ (~contact /\ ~follow /\ ~stride /\ load) => r = "load"
           /\ (~contact /\ ~follow /\ ~stride /\ ~load) =>
                    r = DefaultPhase(phase_history).phase

\* C17: on a frame with usable landmarks the phase is that of the first
\* rule that fires in the order contact, follow-through, stride, load,
\* stance-or-previous; contact whenever bat and ball positions are there
\* and closer than the contact threshold.
C17_PriorityCascade == [][IsPhaseCall => C17_Step]_vars

\* C18: follow_through is returned for a frame only if contact was returned
\* for an earlier frame by the same detector.
C18_FollowThroughAfterContact ==
    \A i \in 1..Len(ph_log) :
        ph_log[i].phase = "follow_through" =>
            \E j \in 1..(i - 1) : ph_log[j].phase = "contact"

\* follow_through was returned
C18_Witness ==
    /\ ph_log /= <<>>
    /\ PhLast(ph_log).phase = "follow_through"
    /\ ph_result.confidence = 80

\* the calls that classified a frame, in order
RECURSIVE Classified(_)
Classified(log) ==
    IF log = <<>> THEN <<>>
    ELSE IF PhLast(log).usable
         THEN Append(Classified(SubSeq(log, 1, Len(log) - 1)), PhLast(log))
         ELSE Classified(SubSeq(log, 1, Len(log) - 1))

\* the last n entries of list, all of it when it is shorter
LastN(list, n) == SubSeq(list, Max2(1, Len(list) - n + 1), Len(list))

\* C19: phase_history holds at most 10 entries and frame_metrics_history at
\* most 30, and they are the most recent classified frames in arrival
\* order.
C19_HistoriesCapped ==
    LET cl == Classified(ph_log)
        recent_phases == LastN(cl, 10)
        recent_frames == LastN(cl, 30)
    IN /\ Len(phase_history) <= 10
       /\ Len(frame_metrics_history) <= 30
       /\ phase_history = [i \in 1..Len(recent_phases) |-> recent_phases[i].phase]
       /\ [i \in 1..Len(frame_metrics_history) |-> frame_metrics_history[i].frame]
             = [i \in 1..Len(recent_frames) |-> recent_frames[i].frame]

\* more than 30 frames were classified, so both lists have dropped entries
C19_Witness ==
    /\ Len(Classified(ph_log)) > 30
    /\ Len(frame_metrics_history) = 30
    /\ Len(phase_history) = 10
    /\ frame_metrics_history[1].frame > 0

NoRuleFires(metrics, history) ==
    /\ ~ContactFires(metrics)
    /\ ~FollowThroughFires(metrics, history)
    /\ ~StrideFires(metrics)
    /\ ~LoadFires(metrics)

C20_Step ==
    /\ (ph_result'.phase = "unknown") <=> ~Usable(CallFrame.pose)
    /\ ~Usable(CallFrame.pose) =>
            /\ ph_result'.confidence = 0
            /\ UNCHANGED <<phase_history, frame_metrics_history>>
    /\ (Usable(CallFrame.pose) /\ NoRuleFires(ph_result'.metrics[1], phase_history)) =>
            ph_result'.phase =
                IF phase_history = <<>> \/ \A i \in 1..Len(phase_history) : phase_history[i] = "stance"
                THEN "stance"
                ELSE PhLast(phase_history)

\* C20: detect_phase returns unknown, with confidence 0.0 and the histories
\* untouched, exactly when the landmarks are unusable; on a usable frame on
\* which no rule fires it returns the most recent entry of phase_history,
\* stance when the history is empty or all stance, never unknown.
C20_UnknownOrPrevious == [][IsPhaseCall => C20_Step]_vars

\* a standing frame without bat or ball, on which no rule fires, was given
\* the stride of the frame before it
C20_Witness ==
    /\ Len(ph_log) >= 2
    /\ LastFrame.pose = Pose(33, 0, 100, 100, 40, 50)
    /\ LastFrame.ball_position = None
    /\ ph_result.phase = "stride"
    /\ ph_result.confidence = 50
(***************************************************************************)
(* FormErrorDetector.detect_errors (form_error_detector.py) and the head   *)
(* of BiomechanicsAnalyzer.analyze_biomechanics (biomechanics_analyzer.py).*)
(* An input frame is None or a landmark list: n, the length of the list,   *)
(* and m, what the detectors measure on the landmarks of that list (the    *)
(* angles and distances that the code computes with numpy are inputs       *)
(* here, taken per frame).  An extracted frame keeps idx, the 0-based      *)
(* index of the input frame it was extracted from.                         *)
(***************************************************************************)

\* "len(result) >= 10", line 149
MIN_EXTRACTED == 10

\* self.thresholds, lines 37-48 (the ones the model uses: 42-47)
FRONT_KNEE_FLEX_MIN == 120
FRONT_KNEE_FLEX_MAX == 150
ELBOW_ANGLE_MIN == 90
SPINE_TILT_MAX == 15
HAND_DROP_THRESHOLD == 50
SEPARATION_MIN == 30

\* landmark_map of _extract_landmarks, lines 120-128 (the same map at
\* biomechanics_analyzer.py 200-208)
form_landmark_map ==
    [nose |-> 0, left_shoulder |-> 11, right_shoulder |-> 12,
     left_elbow |-> 13, right_elbow |-> 14, left_wrist |-> 15, right_wrist |-> 16,
     left_hip |-> 23, right_hip |-> 24, left_knee |-> 25, right_knee |-> 26,
     left_ankle |-> 27, right_ankle |-> 28]

\* lines 131-149: the names whose index is inside the list; None when
\* fewer than MIN_EXTRACTED of them are
form_extract_landmarks(frame, idx) ==
    LET names == {name \in DOMAIN form_landmark_map : form_landmark_map[name] < frame.n}
    IN IF Cardinality(names) >= MIN_EXTRACTED
       THEN Some([idx |-> idx, names |-> names, m |-> frame.m])
       ELSE None

\* lines 76-84 (biomechanics_analyzer.py 54-62): None is appended for a
\* falsy frame, the extracted landmarks for a frame that has them, and
\* nothing at all for a frame whose extraction gives None
RECURSIVE BuildLandmarksSequence(_, _)
BuildLandmarksSequence(pose_landmarks_list, k) ==
    IF k > Len(pose_landmarks_list) THEN <<>>
    ELSE LET landmarks == pose_landmarks_list[k]
             rest == BuildLandmarksSequence(pose_landmarks_list, k + 1)
         IN IF landmarks /= None
            THEN LET extracted == form_extract_landmarks(landmarks[1], k - 1)
                 IN IF extracted /= None THEN <<extracted>> \o rest ELSE rest
            ELSE <<None>> \o rest

landmarks_sequence(pose_landmarks_list) == BuildLandmarksSequence(pose_landmarks_list, 1)

\* landmarks.get(name) is truthy
Has(landmarks, name) == name \in landmarks[1].names

\* landmarks_sequence[i] for a 0-based i
SeqAt(seq, i) == seq[i + 1]

\* "landmarks_sequence[contact_frame] if contact_frame < len(...) else
\* landmarks_sequence[-1]"
ContactLandmarks(seq, contact_frame) ==
    IF contact_frame < Len(seq) THEN SeqAt(seq, contact_frame) ELSE seq[Len(seq)]

FormErr(error, severity, frame) == [error |-> error, severity |-> severity, frame |-> frame]

\* the hip angles of the frames 0..contact_frame that have both hips
\* (lines 163-172)
RECURSIVE HipRotations(_, _)
HipRotations(seq, upto) ==
    IF upto = 0 THEN <<>>
    ELSE LET lm == seq[upto]
         IN HipRotations(seq, upto - 1)
            \o (IF lm /= None /\ Has(lm, "left_hip") /\ Has(lm, "right_hip")
                THEN <<lm[1].m.hip_angle>> ELSE <<>>)

\* list.index(v): the first 1-based position of v
IndexOf(list, v) == CHOOSE i \in 1..Len(list) : list[i] = v /\ \A j \in 1..(i - 1) : list[j] /= v

\* _detect_hip_rotation_errors, lines 155-204
_detect_hip_rotation_errors(seq, contact_frame) ==
    IF contact_frame < 2 THEN <<>>
    ELSE LET hip_rotations == HipRotations(seq, Min2(Len(seq), contact_frame + 1))
         IN IF Len(hip_rotations) < 3 THEN <<>>
            ELSE LET rotation_changes == [i \in 1..(Len(hip_rotations) - 1) |->
                                             Abs(hip_rotations[i + 1] - hip_rotations[1])]
                     half == SubSeq(rotation_changes, 1, Len(rotation_changes) \div 2)
                     rotation_start_frame == IndexOf(rotation_changes, SeqMax(half))
                 IN IF SeqMax(rotation_changes) > 10
                    THEN IF 10 * rotation_start_frame < 3 * Len(hip_rotations)
                         THEN <<FormErr("early_hip_rotation", 2, rotation_start_frame)>>
                         ELSE IF 10 * rotation_start_frame > 7 * Len(hip_rotations)
                              THEN <<FormErr("late_hip_rotation", 2, rotation_start_frame)>>
                              ELSE <<>>
                    ELSE <<>>

\* _detect_stride_errors, lines 206-247: stride_pixels / (600 / 1.75)
\* against 0.6 and 0.2, multiplied out
_detect_stride_errors(seq, contact_frame) ==
    LET lm == ContactLandmarks(seq, contact_frame)
    IN IF lm = None \/ ~(Has(lm, "left_ankle") /\ Has(lm, "right_ankle")) THEN <<>>
       ELSE LET stride_pixels == Abs(lm[1].m.ankle_dx)
            IN IF 7 * stride_pixels > 1440 THEN <<FormErr("overstride", 2, contact_frame)>>
               ELSE IF 7 * stride_pixels < 480 THEN <<FormErr("understride", 1, contact_frame)>>
               ELSE <<>>

\* _detect_knee_errors, lines 249-292; ankle_dx is left_ankle.x minus
\* right_ankle.x, knee_angle the angle of the front knee
_detect_knee_errors(seq, contact_frame) ==
    LET lm == ContactLandmarks(seq, contact_frame)
    IN IF lm = None \/ ~(Has(lm, "left_ankle") /\ Has(lm, "right_ankle")) THEN <<>>
       ELSE LET front_is_left == lm[1].m.ankle_dx > 0
                whole == /\ Has(lm, IF front_is_left THEN "left_hip" ELSE "right_hip")
                         /\ Has(lm, IF front_is_left THEN "left_knee" ELSE "right_knee")
            IN IF ~whole THEN <<>>
               ELSE IF lm[1].m.knee_angle < FRONT_KNEE_FLEX_MIN
                    THEN <<FormErr("collapsing_front_leg", 2, contact_frame)>>
               ELSE IF lm[1].m.knee_angle > FRONT_KNEE_FLEX_MAX
                    THEN <<FormErr("upright_front_leg", 1, contact_frame)>>
               ELSE <<>>

\* _detect_elbow_errors, lines 294-345; elbow_dist is the distance of the
\* right elbow from the right shoulder of the contact frame
_detect_elbow_errors(seq, contact_frame) ==
    LET lm == ContactLandmarks(seq, contact_frame)
    IN IF lm = None THEN <<>>
       ELSE LET arm == Has(lm, "right_shoulder") /\ Has(lm, "right_elbow") /\ Has(lm, "right_wrist")
                chicken == IF arm /\ lm[1].m.elbow_angle < ELBOW_ANGLE_MIN
                           THEN <<FormErr("chicken_wing", 2, contact_frame)>> ELSE <<>>
                earlier == IF contact_frame > 2 THEN SeqAt(seq, contact_frame - 3) ELSE None
                casting == IF /\ contact_frame > 2
                              /\ earlier /= None
                              /\ arm
                              /\ Has(earlier, "right_elbow")
                              /\ 10 * lm[1].m.elbow_dist > 13 * earlier[1].m.elbow_dist
                           THEN <<FormErr("casting", 2, contact_frame)>> ELSE <<>>
            IN chicken \o casting

\* _detect_hand_errors, lines 347-393; wrist_y is the mean height of the
\* two wrists
_detect_hand_errors(seq, contact_frame) ==
    IF contact_frame < 2 THEN <<>>
    ELSE LET lm == SeqAt(seq, contact_frame)
             earlier == SeqAt(seq, Max2(0, contact_frame - 5))
         IN IF lm = None \/ earlier = None THEN <<>>
            ELSE IF /\ Has(lm, "left_wrist") /\ Has(lm, "right_wrist")
                    /\ Has(earlier, "left_wrist") /\ Has(earlier, "right_wrist")
                 THEN LET hand_drop == lm[1].m.wrist_y - earlier[1].m.wrist_y
                      IN IF hand_drop > HAND_DROP_THRESHOLD
                         THEN <<FormErr("dropping_hands", 2, contact_frame)>>
                         ELSE IF hand_drop < -HAND_DROP_THRESHOLD
                              THEN <<FormErr("lifting_hands", 1, contact_frame)>>
                              ELSE <<>>
                 ELSE <<>>

\* _detect_spine_errors, lines 395-424
_detect_spine_errors(seq, contact_frame) ==
    LET lm == ContactLandmarks(seq, contact_frame)
    IN IF lm = None THEN <<>>
       ELSE IF /\ Has(lm, "nose") /\ Has(lm, "left_hip") /\ Has(lm, "right_hip")
               /\ Abs(lm[1].m.spine_angle) > SPINE_TILT_MAX
            THEN <<FormErr("spine_tilt_excessive", 2, contact_frame)>>
            ELSE <<>>

\* _detect_weight_distribution_errors, lines 426-459: min(left, right) /
\* total against 0.6, multiplied out
_detect_weight_distribution_errors(seq, contact_frame) ==
    LET lm == ContactLandmarks(seq, contact_frame)
    IN IF lm = None THEN <<>>
       ELSE IF ~(/\ Has(lm, "left_knee") /\ Has(lm, "right_knee")
                 /\ Has(lm, "left_ankle") /\ Has(lm, "right_ankle")) THEN <<>>
       ELSE LET left_flex == lm[1].m.left_flex
                right_flex == lm[1].m.right_flex
                total_flex == left_flex + right_flex
            IN IF total_flex > 0 /\ 10 * Min2(left_flex, right_flex) > 6 * total_flex
               THEN <<FormErr("weight_on_back_foot", 2, contact_frame)>>
               ELSE <<>>

\* _detect_separation_errors, lines 461-493
_detect_separation_errors(seq, contact_frame) ==
    LET load_frame == Max2(0, contact_frame - 5)
        lm == IF load_frame < Len(seq) THEN SeqAt(seq, load_frame) ELSE None
    IN IF lm = None THEN <<>>
       ELSE IF ~(/\ Has(lm, "left_hip") /\ Has(lm, "right_hip")
                 /\ Has(lm, "left_shoulder") /\ Has(lm, "right_shoulder")) THEN <<>>
       ELSE IF lm[1].m.separation < SEPARATION_MIN
            THEN <<FormErr("no_separation", 2, load_frame)>>
            ELSE <<>>

\* _detect_rotation_errors, lines 495-532
_detect_rotation_errors(seq, contact_frame) ==
    LET lm == ContactLandmarks(seq, contact_frame)
    IN IF lm = None THEN <<>>
       ELSE IF ~(Has(lm, "left_shoulder") /\ Has(lm, "right_shoulder")) THEN <<>>
       ELSE IF lm[1].m.shoulder_angle > 70 THEN <<FormErr("over_rotation", 1, contact_frame)>>
       ELSE IF lm[1].m.shoulder_angle < 20 THEN <<FormErr("under_rotation", 2, contact_frame)>>
       ELSE <<>>

\* _deduplicate_errors, lines 534-543: the first error of each type
RECURSIVE _deduplicate_errors(_)
_deduplicate_errors(errors) ==
    IF errors = <<>> THEN <<>>
    ELSE LET init == SubSeq(errors, 1, Len(errors) - 1)
             last == errors[Len(errors)]
         IN IF \E i \in 1..Len(init) : init[i].error = last.error
            THEN _deduplicate_errors(init)
            ELSE Append(_deduplicate_errors(init), last)

\* faulty variant: least severe first
SortBySeverity_Ascending(errors) ==
    SelectSeq(errors, LAMBDA e : e.severity = 1) \o SelectSeq(errors, LAMBDA e : e.severity = 2)
      \o SelectSeq(errors, LAMBDA e : e.severity = 3)

\* "unique_errors.sort(key=severity, reverse=True)", line 108: a stable
\* sort, the errors of one severity keep their order
SortBySeverity(errors) ==
    SelectSeq(errors, LAMBDA e : e.severity = 3) \o SelectSeq(errors, LAMBDA e : e.severity = 2)
      \o SelectSeq(errors, LAMBDA e : e.severity = 1)

\* lines 89-91: the contact frame the detectors are given
FormContactFrame(seq, contact_frame) ==
    IF contact_frame = None \/ contact_frame[1] >= Len(seq) THEN Len(seq) \div 2
    ELSE contact_frame[1]

\* the errors of the nine detectors in the order of lines 96-104
AllFormErrors(seq, cf) ==
    _detect_hip_rotation_errors(seq, cf) \o _detect_stride_errors(seq, cf)
      \o _detect_knee_errors(seq, cf) \o _detect_elbow_errors(seq, cf)
      \o _detect_hand_errors(seq, cf) \o _detect_spine_errors(seq, cf)
      \o _detect_weight_distribution_errors(seq, cf) \o _detect_separation_errors(seq, cf)
      \o _detect_rotation_errors(seq, cf)

\* detect_errors, lines 50-115 (severity_score and recommendations are
\* computed from errors and left out)
detect_errors(pose_landmarks_list, contact_frame) ==
    IF pose_landmarks_list = <<>> THEN [errors |-> <<>>, error_count |-> 0]
    ELSE LET seq == landmarks_sequence(pose_landmarks_list)
         IN IF seq = <<>> THEN [errors |-> <<>>, error_count |-> 0]
            ELSE LET unique_errors ==
                         SortBySeverity(_deduplicate_errors(
                             AllFormErrors(seq, FormContactFrame(seq, contact_frame))))
                 IN [errors |-> unique_errors, error_count |-> Len(unique_errors)]

\* analyze_biomechanics, lines 145-151: the frame that is analysed and its
\* landmarks ("contact_frame and ..." is false for contact_frame 0 too)
analysis_frame(seq, contact_frame) ==
    LET first == IF contact_frame /= None /\ contact_frame[1] /= 0 /\ contact_frame[1] < Len(seq)
                 THEN contact_frame[1] ELSE Len(seq) \div 2
    IN IF first >= Len(seq) \/ SeqAt(seq, first) = None
       THEN IF \E i \in 1..Len(seq) : seq[i] /= None
            THEN (CHOOSE i \in 1..Len(seq) : seq[i] /= None /\ \A j \in 1..(i - 1) : seq[j] = None) - 1
            ELSE 0
       ELSE first

\* analyze_biomechanics, lines 31-62 and 145-186: which frame the analysis
\* is made on; estimated is the early return of lines 66-143
analyze_biomechanics(pose_landmarks_list, contact_frame) ==
    IF pose_landmarks_list = <<>> THEN [error |-> TRUE, estimated |-> FALSE, frame |-> 0, landmarks |-> None]
    ELSE LET seq == landmarks_sequence(pose_landmarks_list)
         IN IF seq = <<>> THEN [error |-> FALSE, estimated |-> TRUE, frame |-> 0, landmarks |-> None]
            ELSE [error |-> FALSE, estimated |-> FALSE,
                  frame |-> analysis_frame(seq, contact_frame),
                  landmarks |-> SeqAt(seq, analysis_frame(seq, contact_frame))]

\* what the detectors measure on three postures
Measures ==
    [a |-> [hip_angle |-> 0, ankle_dx |-> 100, knee_angle |-> 130, elbow_angle |-> 100,
            elbow_dist |-> 100, wrist_y |-> 300, spine_angle |-> 0, left_flex |-> 100,
            right_flex |-> 100, separation |-> 50, shoulder_angle |-> 45],
     b |-> [hip_angle |-> 20, ankle_dx |-> 20, knee_angle |-> 160, elbow_angle |-> 80,
            elbow_dist |-> 140, wrist_y |-> 400, spine_angle |-> 90, left_flex |-> 100,
            right_flex |-> 50, separation |-> 10, shoulder_angle |-> 80],
     c |-> [hip_angle |-> 5, ankle_dx |-> -300, knee_angle |-> 100, elbow_angle |-> 120,
            elbow_dist |-> 100, wrist_y |-> 200, spine_angle |-> 90, left_flex |-> 0,
            right_flex |-> 0, separation |-> 40, shoulder_angle |-> 10]]

\* the frames: None, a list too short for ten landmarks, a list without
\* the ankles, and full lists of 33 landmarks
FormFrameChoices ==
    {None, Some([n |-> 12, m |-> Measures.a]), Some([n |-> 27, m |-> Measures.b]),
     Some([n |-> 33, m |-> Measures.a]), Some([n |-> 33, m |-> Measures.b]),
     Some([n |-> 33, m |-> Measures.c])}

FormInputs ==
    [pose_landmarks_list : SeqsUpTo(FormFrameChoices, MaxFormFrames),
     contact_frame : {None} \cup {Some(i) : i \in 0..MaxFormFrames}]

\* one call of detect_errors
DetectErrors ==
    /\ fe_result = None
    /\ fe_result' = Some(detect_errors(fe_input.pose_landmarks_list, fe_input.contact_frame))
    /\ UNCHANGED <<fe_input, bm_result, notForm>>

\* one call of analyze_biomechanics
AnalyzeBiomechanics ==
    /\ bm_result = None
    /\ bm_result' = Some(analyze_biomechanics(fe_input.pose_landmarks_list, fe_input.contact_frame))
    /\ UNCHANGED <<fe_input, fe_result, notForm>>

InitForm ==
    /\ cfg = PersonConfig(TRUE)
    /\ InitBase
    /\ InitExt("form")
    /\ fe_input \in FormInputs
    /\ fe_result = None
    /\ bm_result = None

NextForm == DetectErrors \/ AnalyzeBiomechanics

SpecForm == InitForm /\ [][NextForm]_vars

\* the first position of an error of this type
IndexOfType(found, type) ==
    CHOOSE i \in 1..Len(found) : found[i].error = type /\ \A j \in 1..(i - 1) : found[j].error /= type

\* the errors of the finished detect_errors call
FeErrors == fe_result[1].errors

\* C21: the errors list of detect_errors has at most one entry per error
\* type, the first one the detectors found; it is sorted by severity from
\* the most to the least severe; error_count is its length
C21_DedupSorted ==
    fe_result /= None =>
        /\ \A i, j \in 1..Len(FeErrors) : i < j => FeErrors[i].error /= FeErrors[j].error
        /\ \A i, j \in 1..Len(FeErrors) : i < j => FeErrors[i].severity >= FeErrors[j].severity
        /\ fe_result[1].error_count = Len(FeErrors)
        /\ LET seq == landmarks_sequence(fe_input.pose_landmarks_list)
               found == IF seq = <<>> THEN <<>>
                        ELSE AllFormErrors(seq, FormContactFrame(seq, fe_input.contact_frame))
           IN /\ {found[i].error : i \in 1..Len(found)} = {FeErrors[i].error : i \in 1..Len(FeErrors)}
              /\ \A i \in 1..Len(FeErrors) :
                    FeErrors[i] = found[IndexOfType(found, FeErrors[i].error)]

\* detect_errors returned three errors or more, and the detectors had
\* found a less severe error before a more severe one
C21_Witness ==
    /\ fe_result /= None
    /\ Len(FeErrors) >= 3
    /\ FeErrors[1].severity = 2
    /\ FeErrors[Len(FeErrors)].severity = 1
    /\ LET seq == landmarks_sequence(fe_input.pose_landmarks_list)
           found == AllFormErrors(seq, FormContactFrame(seq, fe_input.contact_frame))
       IN found[1].severity = 1

\* the landmarks_sequence that the finished calls built
BuiltSequence == landmarks_sequence(fe_input.pose_landmarks_list)

\* C29: in detect_errors and analyze_biomechanics, landmarks_sequence is
\* as long as pose_landmarks_list and its entry i was extracted from input
\* frame i, None when frame i has no usable landmarks; the frame that
\* analyze_biomechanics analyses carries the landmarks of that same input
\* frame
C29_SequenceAligned ==
    /\ (fe_result /= None /\ fe_input.pose_landmarks_list /= <<>>) =>
          /\ Len(BuiltSequence) = Len(fe_input.pose_landmarks_list)
          /\ \A i \in 1..Len(BuiltSequence) :
                BuiltSequence[i] /= None => BuiltSequence[i][1].idx = i - 1
    /\ (bm_result /= None /\ bm_result[1].landmarks /= None) =>
          bm_result[1].landmarks[1].idx = bm_result[1].frame
(***************************************************************************)
(* DrillService.recommend_drills (drill_service.py).  The drills           *)
(* collection is the sequence of its documents in the order find returns   *)
(* them; a document has the fields the scoring reads.  Scores are in       *)
(* hundredths.  metrics is a record of the values the code reads, None     *)
(* for a key that is absent.                                               *)
(***************************************************************************)

\* _analyze_metrics, lines 197-238; confidence is in hundredths and
\* defaults to 1.0
_analyze_metrics(metrics) ==
    (IF metrics.launchAngle /= None
     THEN IF metrics.launchAngle[1] < 10 THEN <<"low_launch_angle">>
          ELSE IF metrics.launchAngle[1] > 35 THEN <<"high_launch_angle">> ELSE <<>>
     ELSE <<>>)
    \o (IF metrics.hipAngle /= None /\ Abs(metrics.hipAngle[1]) < 15
        THEN <<"poor_hip_rotation">> ELSE <<>>)
    \o (IF metrics.shoulderAngle /= None /\ Abs(metrics.shoulderAngle[1]) < 20
        THEN <<"poor_shoulder_rotation">> ELSE <<>>)
    \o (IF metrics.handAngle /= None
        THEN IF metrics.handAngle[1] < 0 THEN <<"steep_bat_path">>
             ELSE IF metrics.handAngle[1] > 45 THEN <<"flat_bat_path">> ELSE <<>>
        ELSE <<>>)
    \o (IF (IF metrics.confidence /= None THEN metrics.confidence[1] ELSE 100) < 50
        THEN <<"poor_pose_detection">> ELSE <<>>)

\* the elements of a list
Elems(list) == {list[i] : i \in 1..Len(list)}

\* _score_drill, lines 240-271, in hundredths: 70 * matches /
\* len(corrections), 10 or 5 for the difficulty, 10 for no equipment
_score_drill(drill, corrections) ==
    LET match == IF corrections /= <<>>
                 THEN (70 * Cardinality(Elems(corrections) \cap drill.corrections))
                          \div Len(corrections)
                 ELSE 0
        diff == IF drill.difficulty = "beginner" THEN 10
                ELSE IF drill.difficulty = "intermediate" THEN 5 ELSE 0
        equip == IF drill.equipment = {} THEN 10 ELSE 0
    IN Min2(match + diff + equip, 100)

\* collection.find({'corrections': {'$in': wanted}}): the documents whose
\* corrections array holds one of the wanted values; every document for
\* the empty query
Find(collection, query) ==
    IF query = None THEN collection
    ELSE SelectSeq(collection, LAMBDA d : d.corrections \cap Elems(query[1]) /= {})

\* cursor.limit(k): the first k documents, every document for k = 0
CursorLimit(docs, k) ==
    IF k = 0 \/ k >= Len(docs) THEN docs ELSE SubSeq(docs, 1, k)

\* faulty variant: the drills are left in the order of the collection
SortByScore_Unsorted(scored) == scored

\* "scored_drills.sort(key=relevanceScore, reverse=True)", line 194: a
\* stable sort, drills of one score keep their order
RECURSIVE SortByScore(_)
SortByScore(scored) ==
    IF scored = <<>> THEN <<>>
    ELSE LET best == SeqMax([i \in 1..Len(scored) |-> scored[i].relevanceScore])
         IN SelectSeq(scored, LAMBDA d : d.relevanceScore = best)
            \o SortByScore(SelectSeq(scored, LAMBDA d : d.relevanceScore /= best))

\* recommend_drills, lines 149-195
recommend_drills(collection, corrections, metrics, limit) ==
    LET metric_corrections == _analyze_metrics(metrics)
        query == IF metric_corrections /= <<>>
                 THEN IF corrections /= <<>> THEN Some(corrections \o metric_corrections)
                      ELSE Some(metric_corrections)
                 ELSE IF corrections /= <<>> THEN Some(corrections) ELSE None
        drills == CursorLimit(Find(collection, query), limit * 2)
        scored_drills == [i \in 1..Len(drills) |->
                             [id |-> drills[i].id, corrections |-> drills[i].corrections,
                              difficulty |-> drills[i].difficulty,
                              equipment |-> drills[i].equipment,
                              relevanceScore |-> _score_drill(drills[i], corrections)]]
        sorted == SortByScore(scored_drills)
    IN SubSeq(sorted, 1, Min2(limit, Len(sorted)))

\* the documents of the collection (after scripts/seed_drills.py)
DrillPool ==
    {[id |-> 1, corrections |-> {"low_launch_angle"}, difficulty |-> "advanced",
      equipment |-> {"bat"}],
     [id |-> 2, corrections |-> {"low_launch_angle", "high_launch_angle"},
      difficulty |-> "beginner", equipment |-> {"bat", "tee"}],
     [id |-> 3, corrections |-> {"poor_hip_rotation"}, difficulty |-> "intermediate",
      equipment |-> {}],
     [id |-> 4, corrections |-> {"poor_hip_rotation", "low_launch_angle"},
      difficulty |-> "beginner", equipment |-> {}],
     [id |-> 5, corrections |-> {"low_launch_angle"}, difficulty |-> "intermediate",
      equipment |-> {"bat"}]}

\* the collections: lists of distinct documents
Collections ==
    {c \in SeqsUpTo(DrillPool, MaxDrills) : \A i, j \in 1..Len(c) : i /= j => c[i] /= c[j]}

NoMetrics ==
    [launchAngle |-> None, hipAngle |-> None, shoulderAngle |-> None, handAngle |-> None,
     confidence |-> None]

MetricsChoices == {NoMetrics, [NoMetrics EXCEPT !.hipAngle = Some(10)]}

DrillInputs ==
    [collection : Collections,
     corrections : {<<"low_launch_angle">>, <<"poor_hip_rotation">>},
     metrics : MetricsChoices,
     limit : 0..MaxLimit]

\* one call of recommend_drills
RecommendDrills ==
    /\ dr_result = None
    /\ dr_result' = Some(recommend_drills(dr_input.collection, dr_input.corrections,
                                          dr_input.metrics, dr_input.limit))
    /\ UNCHANGED <<dr_input, notDrill>>

InitDrill ==
    /\ cfg = PersonConfig(TRUE)
    /\ InitBase
    /\ InitExt("drill")
    /\ dr_input \in DrillInputs
    /\ dr_result = None

NextDrill == RecommendDrills

SpecDrill == InitDrill /\ [][NextDrill]_vars

\* C22: recommend_drills(corrections=[c], metrics={}, limit=n) returns at
\* most n drills, each of them has c among its corrections, and the list
\* is in descending order of relevance score
C22_RecommendContract ==
    (dr_result /= None /\ dr_input.metrics = NoMetrics) =>
        LET out == dr_result[1]
            c == dr_input.corrections[1]
        IN /\ Len(out) <= dr_input.limit
           /\ \A i \in 1..Len(out) : c \in out[i].corrections
           /\ \A i, j \in 1..Len(out) : i < j => out[i].relevanceScore >= out[j].relevanceScore

\* a call with limit 2 on a collection of three matching drills whose
\* first document scores lowest: two drills are returned, the best first
C22_Witness ==
    /\ dr_result /= None
    /\ dr_input.metrics = NoMetrics
    /\ dr_input.limit = 2
    /\ dr_input.corrections = <<"low_launch_angle">>
    /\ Len(dr_input.collection) >= 3
    /\ dr_input.collection[1].id = 1
    /\ Len(dr_result[1]) = 2
    /\ dr_result[1][1].relevanceScore > dr_result[1][2].relevanceScore
    /\ dr_result[1][1].id /= 1
(***************************************************************************)
(* try_parse over the payloads of every length: which of its four formats  *)
(* decodes a payload.  The tests of try_parse read the length of the       *)
(* payload only (unpack_i16_le and unpack_i16_be fail on an odd length     *)
(* and on nothing else), so one payload of each length 0..MaxPayload       *)
(* shows every choice the function can make on payloads that long.         *)
(***************************************************************************)

\* the return statement of try_parse that is reached (lines 86, 93, 98,
\* 104, 108)
SelectedFormat(payload) ==
    IF SixValues(unpack_i16_le(payload)) THEN "le"
    ELSE IF Len(payload) >= 13 /\ SixValues(unpack_i16_le(Tail(payload))) THEN "le_prefix"
    ELSE IF SixValues(unpack_i16_be(payload)) THEN "be"
    ELSE IF Len(payload) >= 12 THEN "gyro_only"
    ELSE "none"

\* the four formats of try_parse
Formats == {"le", "le_prefix", "be", "gyro_only"}

\* what a format alone makes of the payload: the dict, or None when the
\* format does not apply
Decode(format, payload) ==
    IF format = "le"
    THEN IF SixValues(unpack_i16_le(payload)) THEN Some(ParsedDict(unpack_i16_le(payload)[1])) ELSE None
    ELSE IF format = "le_prefix"
    THEN IF Len(payload) >= 13 /\ SixValues(unpack_i16_le(Tail(payload)))
         THEN Some(ParsedDict(unpack_i16_le(Tail(payload))[1])) ELSE None
    ELSE IF format = "be"
    THEN IF SixValues(unpack_i16_be(payload)) THEN Some(ParsedDict(unpack_i16_be(payload)[1])) ELSE None
    ELSE IF Len(payload) >= 12
         THEN LET g == unpack_i16_le(SubSeq(payload, 7, 12))[1]
              IN Some([ax |-> 0, ay |-> 0, az |-> 0, gx |-> g[1], gy |-> g[2], gz |-> g[3]])
         ELSE None

\* a payload of each length: the first bytes of a prefix byte, the
\* big-endian packing of six values, and filling bytes
PayloadBytes ==
    <<7>> \o PackBE(<<1, -1, 256, 0, -32768, 32767>>)
      \o [i \in 1..MaxPayload |-> (37 * i) % 256]

PayloadOfLen(n) == SubSeq(PayloadBytes, 1, n)

\* one call of try_parse, on the payload of a length not yet tried
TryParseLen(n) ==
    /\ n \notin tp_tried
    /\ tp_tried' = tp_tried \cup {n}
    /\ tp_calls' = tp_calls @@ (n :> [format |-> SelectedFormat(PayloadOfLen(n)),
                                      result |-> try_parse(PayloadOfLen(n))])
    /\ UNCHANGED notFormats

InitFormats ==
    /\ cfg = PersonConfig(TRUE)
    /\ InitBase
    /\ InitExt("formats")
    /\ tp_tried = {}
    /\ tp_calls = <<>>

NextFormats == \E n \in 0..MaxPayload : TryParseLen(n)

SpecFormats == InitFormats /\ [][NextFormats]_vars

\* C23: try_parse returns what the first of its four formats that applies
\* makes of the payload (little-endian, little-endian behind a 1-byte
\* prefix, big-endian, gyro-only at offset 6 with ax = ay = az = 0), None
\* only when no format applies; and each of the four formats is selected
\* for some payload: once a payload of every length has been parsed, every
\* format has decoded one of them
C23_FourFormats ==
    /\ \A n \in tp_tried :
          LET p == PayloadOfLen(n)
              applies == {f \in Formats : Decode(f, p) /= None}
          IN /\ (tp_calls[n].result = None) <=> (applies = {})
             /\ tp_calls[n].result /= None =>
                   /\ tp_calls[n].result = Decode(tp_calls[n].format, p)
                   /\ tp_calls[n].format = "le"
                        \/ (tp_calls[n].format = "le_prefix" /\ "le" \notin applies)
                        \/ (tp_calls[n].format = "be" /\ applies \cap {"le", "le_prefix"} = {})
                        \/ (tp_calls[n].format = "gyro_only" /\ applies = {"gyro_only"})
    /\ tp_tried = 0..MaxPayload =>
          \A f \in Formats : \E n \in tp_tried : tp_calls[n].format = f

(***************************************************************************)
(* Properties of the correction step of MultiObjectTracker.update          *)
(***************************************************************************)
\* how far two boxes are apart: the sum of the coordinate differences
BoxDistance(b1, b2) ==
    Abs(b1[1] - b2[1]) + Abs(b1[2] - b2[2]) + Abs(b1[3] - b2[3]) + Abs(b1[4] - b2[4])

\* the track with this id after the call, in a set (empty when deleted)
TrackAfter(id) == {tracks'[i] : i \in {i \in 1..Len(tracks') : tracks'[i].track_id = id}}

\* for the pairs <<detection, track>> the call matched: without the
\* Kalman filter the track has the detection's box; with it, the track's
\* box is closer to the detection's box than the predicted box was,
\* unless the two were equal already
C24_Step ==
    \A k \in 1..Len(assoc'.out.matched) :
        LET pair == assoc'.out.matched[k]
            det_box == assoc'.dets[pair[1]].bbox
            predicted_box == assoc'.boxes[pair[2]]
        IN \A t \in TrackAfter(assoc'.ids[pair[2]]) :
              IF cfg.use_kalman
              THEN \/ predicted_box = det_box /\ t.bbox = det_box
                   \/ BoxDistance(t.bbox, det_box) < BoxDistance(predicted_box, det_box)
              ELSE t.bbox = det_box

\* C24: when MultiObjectTracker.update matches a detection to a track, the
\* track is corrected with the detection's box as the measurement: after
\* the call the track's box equals the detection's box (use_kalman False)
\* or has moved toward it (use_kalman True), so a track follows an object
\* that moves from frame to frame
C24_TrackFollowsDetection == [][IsUpdateStep => C24_Step]_vars

(***************************************************************************)
(* Properties of the events of SwingDetector.feed                          *)
(***************************************************************************)
\* k tenths of a dps is omega rounded to one decimal, omega being the
\* square root of sq: k - 1/2 <= 10 * omega < k + 1/2
IsNearestTenth(k, sq) ==
    /\ k >= 0
    /\ (2 * k - 1) * (2 * k - 1) <= 400 * sq
    /\ 400 * sq < (2 * k + 1) * (2 * k + 1)

\* the largest omega squared among the samples of a swing
LargestOmegaSq(samples) == SeqMax([i \in 1..Len(samples) |-> samples[i][2]])

\* a feed step that ends a swing emits an event exactly when the duration
\* is in the range, with the times in order and the peak of the swing's
\* own samples; it leaves the detector idle with the peak cleared
C25_Step ==
    /\ SwingEnds =>
          /\ det_state' = "idle" /\ peak' = <<>>
          /\ swing_samples'[Len(swing_samples')][1] = now'
          /\ LET swing == swing_samples'
                 dur_ms == (now' - swing[1][1]) \div 10
             IN IF MIN_SWING_MS <= dur_ms /\ dur_ms <= MAX_SWING_MS
                THEN /\ Len(events') = Len(events) + 1
                     /\ LET e == events'[Len(events')]
                        IN /\ e.duration_ms = dur_ms
                           /\ e.t_start = swing[1][1]
                           /\ e.t_end = now'
                           /\ IsNearestTenth(e.omega_peak_dps, LargestOmegaSq(swing))
                           /\ \E i \in 1..Len(swing) :
                                 /\ swing[i][1] = e.t_peak
                                 /\ swing[i][2] = LargestOmegaSq(swing)
                ELSE events' = events
    /\ ~SwingEnds => events' = events

\* C25: with non-decreasing timestamps, every swing event has a duration
\* between MIN_SWING_MS and MAX_SWING_MS and t_start <= t_peak <= t_end,
\* and its omega_peak_dps is the largest omega among the samples from the
\* swing's start sample through its end sample; a swing whose duration is
\* outside the range is dropped without an event, the detector is idle
\* again and its peak is cleared
C25_EventsWellFormed ==
    /\ [](\A i \in 1..Len(events) :
            /\ MIN_SWING_MS <= events[i].duration_ms
            /\ events[i].duration_ms <= MAX_SWING_MS
            /\ events[i].t_start <= events[i].t_peak
            /\ events[i].t_peak <= events[i].t_end)
    /\ [][nsamples' = nsamples + 1 => C25_Step]_vars

\* a swing was emitted whose peak is a sample between its start and its
\* end, after an earlier swing was dropped
C25_Witness ==
    /\ Len(events) = 1
    /\ events[1].t_start < events[1].t_peak
    /\ events[1].t_peak < events[1].t_end
    /\ events[1].t_end = now
    /\ nsamples > 3
    /\ det_state = "idle" /\ peak = <<>>

(***************************************************************************)
(* Properties of the cleanup of a detection thread                         *)
(***************************************************************************)
\* thread i runs the finally block of _run_detection in this step
CleansUp(i) == threads[i].pc = "cleanup" /\ threads'[i].pc = "done"

\* the entry of the session belongs to a later run than thread i's
EntryOfOtherRun(i) ==
    /\ active_sessions[threads[i].session] /= <<>>
    /\ active_sessions[threads[i].session][1].thread /= i

\* C26: the cleanup of a detection thread affects only its own run.  When
\* a session was stopped and started again before the old thread has
\* finished, the old thread's cleanup leaves the new run's entry as it is
\* (so the new thread is not made to exit), and no entry stays behind
\* whose thread has ended, which would make later start_detection calls
\* for the session fail as already running
C26_CleanupOwnRunOnly ==
    /\ [][\A i \in 1..Len(threads) :
            (CleansUp(i) /\ EntryOfOtherRun(i)) => active_sessions' = active_sessions]_vars
    /\ [](\A sid \in Sessions :
            active_sessions[sid] /= <<>> => Alive(threads[active_sessions[sid][1].thread]))

(***************************************************************************)
(* Properties of the lists analyze_video_from_path collects                *)
(***************************************************************************)
\* what the finished call collected from its frames
Collected == CollectFrames(va_input.video, 1, NoFrames)

\* C27: in analyze_video_from_path, for every processed frame the entry of
\* bat_angles is the bat angle _process_frame found for that frame and the
\* entry of bat_positions that frame's bat position; an entry is None only
\* for a frame without a bat, so a video with a bat in some frame gives
\* contact detection a bat angle that is not None
C27_BatListsFollowFrames ==
    (va_response /= None /\ va_input.opened) =>
        /\ Len(Collected.bat_angles) = Len(Collected.frames_data)
        /\ Len(Collected.bat_positions) = Len(Collected.frames_data)
        /\ \A j \in 1..Len(Collected.frames_data) :
              /\ Collected.bat_angles[j] = Collected.frames_data[j].batAngle
              /\ Collected.bat_positions[j] = Collected.frames_data[j].batPosition
        /\ (\E k \in 1..Len(va_input.video) :
                va_input.video[k].processed /\ va_input.video[k].bat /= None)
             => \E j \in 1..Len(Collected.bat_angles) : Collected.bat_angles[j] /= None
\* ---------------------------------------------------------------------
\* routes/queue.py: the job table _jobs, the queue _q and the one worker
\* thread.  A request thread runs queue_video in three steps (the write
\* of _jobs[job_id], _start_worker(), _q.put(job_id)); the worker runs
\* _worker_loop, one step per blocking call and its _update_job.
\* ---------------------------------------------------------------------
JobIds == 0..MaxClock
RequestThreads == 1..MaxRequestThreads
Active == {"downloading", "processing", "saving"}
Terminal == {"completed", "failed"}

\* _update_job: under _lock, the status of a job that is in the table
_update_job(job_id, status) ==
    IF _jobs[job_id] = "absent" THEN _jobs
    ELSE [_jobs EXCEPT ![job_id] = status]

\* the wall clock that time.time_ns() reads moves on
Tick ==
    /\ clock < MaxClock
    /\ clock' = clock + 1
    /\ UNCHANGED <<_jobs, _q, _worker_started, worker_pc, worker_job,
                   req_pc, req_job, nrequests, ntaken, nthreads>>
    /\ UNCHANGED notQueue

\* queue_video, to the write of the job: a body without callbackUrl, or
\* with neither videoUrl nor videoPath, is answered 400; otherwise
\* job_id = str(time.time_ns()) and _jobs[job_id] is written, status
\* 'queued', without the lock
QueueVideoCreate(r, valid) ==
    /\ req_pc[r] = "idle"
    /\ nrequests < MaxRequests
    /\ nrequests' = nrequests + 1
    /\ IF valid
       THEN /\ _jobs' = [_jobs EXCEPT ![clock] = "queued"]
            /\ req_job' = [req_job EXCEPT ![r] = clock]
            /\ req_pc' = [req_pc EXCEPT ![r] = "start"]
       ELSE UNCHANGED <<_jobs, req_job, req_pc>>
    /\ UNCHANGED <<_q, _worker_started, worker_pc, worker_job, clock,
                   ntaken, nthreads>>
    /\ UNCHANGED notQueue

\* _start_worker, called by queue_video: under _lock, the thread is
\* started unless _worker_started
_start_worker(r) ==
    /\ req_pc[r] = "start"
    /\ req_pc' = [req_pc EXCEPT ![r] = "put"]
    /\ IF _worker_started
       THEN UNCHANGED <<_worker_started, nthreads>>
       ELSE /\ _worker_started' = TRUE
            /\ nthreads' = nthreads + 1
    /\ UNCHANGED <<_jobs, _q, worker_pc, worker_job, req_job, clock,
                   nrequests, ntaken>>
    /\ UNCHANGED notQueue

\* queue_video, the end: _q.put(job_id) and the answer
QueueVideoPut(r) ==
    /\ req_pc[r] = "put"
    /\ _q' = Append(_q, req_job[r])
    /\ req_pc' = [req_pc EXCEPT ![r] = "idle"]
    /\ UNCHANGED <<_jobs, _worker_started, worker_pc, worker_job, req_job,
                   clock, nrequests, ntaken, nthreads>>
    /\ UNCHANGED notQueue

\* _worker_loop: job_id = _q.get(); an id that is not in the table is
\* skipped, otherwise the job becomes 'downloading'
WorkerGet ==
    /\ _worker_started
    /\ worker_pc = "get"
    /\ _q /= <<>>
    /\ _q' = Tail(_q)
    /\ IF _jobs[Head(_q)] = "absent"
       THEN UNCHANGED <<_jobs, worker_pc, worker_job, ntaken>>
       ELSE /\ _jobs' = _update_job(Head(_q), "downloading")
            /\ worker_job' = Head(_q)
            /\ worker_pc' = "download"
            /\ ntaken' = [ntaken EXCEPT ![Head(_q)] = @ + 1]
    /\ UNCHANGED <<_worker_started, req_pc, req_job, clock, nrequests,
                   nthreads>>
    /\ UNCHANGED notQueue

\* one stage of the try block: the blocking call ends (requests.get,
\* analyze_video, requests.post), and either the next _update_job runs or
\* the except branch writes 'failed'; the loop then takes the next id
WorkerStage(at, ok, status, next_pc) ==
    /\ worker_pc = at
    /\ _jobs' = _update_job(worker_job, IF ok THEN status ELSE "failed")
    /\ worker_pc' = IF ok THEN next_pc ELSE "get"
    /\ UNCHANGED <<_q, _worker_started, worker_job, req_pc, req_job, clock,
                   nrequests, ntaken, nthreads>>
    /\ UNCHANGED notQueue

WorkerDownload(ok) == WorkerStage("download", ok, "processing", "analyze")
WorkerAnalyze(ok) == WorkerStage("analyze", ok, "saving", "save")
WorkerSave(ok) == WorkerStage("save", ok, "completed", "get")

Worker ==
    \/ WorkerGet
    \/ \E ok \in BOOLEAN : WorkerDownload(ok)
    \/ \E ok \in BOOLEAN : WorkerAnalyze(ok)
    \/ \E ok \in BOOLEAN : WorkerSave(ok)

InitQueue ==
    /\ cfg = PersonConfig(TRUE)
    /\ InitBase
    /\ InitExt("queue")
    /\ _jobs = [i \in JobIds |-> "absent"]
    /\ _q = <<>>
    /\ _worker_started = FALSE
    /\ worker_pc = "get"
    /\ worker_job = 0
    /\ req_pc = [r \in RequestThreads |-> "idle"]
    /\ req_job = [r \in RequestThreads |-> 0]
    /\ clock = 0
    /\ nrequests = 0
    /\ ntaken = [i \in JobIds |-> 0]
    /\ nthreads = 0

NextQueue ==
    \/ Tick
    \/ \E r \in RequestThreads, valid \in BOOLEAN : QueueVideoCreate(r, valid)
    \/ \E r \in RequestThreads : _start_worker(r)
    \/ \E r \in RequestThreads : QueueVideoPut(r)
    \/ WorkerGet
    \/ \E ok \in BOOLEAN : WorkerDownload(ok)
    \/ \E ok \in BOOLEAN : WorkerAnalyze(ok)
    \/ \E ok \in BOOLEAN : WorkerSave(ok)

SpecQueue == InitQueue /\ [][NextQueue]_vars

\* the worker is a thread of its own in a loop whose blocking calls carry
\* timeouts, and a request that has written its job goes on to put it:
\* both are scheduled as long as they can run
SpecQueueFair ==
    /\ SpecQueue
    /\ WF_vars(Worker)
    /\ \A r \in RequestThreads : WF_vars(_start_worker(r) \/ QueueVideoPut(r))

\* one step forward along the life of a job
StatusForward(old, new) ==
    \/ old = new
    \/ <<old, new>> \in {<<"absent", "queued">>,
                         <<"queued", "downloading">>,
                         <<"downloading", "processing">>,
                         <<"processing", "saving">>,
                         <<"saving", "completed">>}
    \/ (old \in {"queued"} \cup Active /\ new = "failed")

\* C28: under any interleaving of the requests and the worker, the status
\* of each job only moves forward along queued, downloading, processing,
\* saving, completed, or to failed from a stage that is not terminal;
\* completed and failed are never left; a job is processed at most once;
\* only one worker thread is ever started and at most one job is being
\* downloaded, processed or saved; and every job put on the queue
\* eventually reaches completed or failed.
C28_JobLifecycle ==
    /\ [][\A i \in JobIds : StatusForward(_jobs[i], _jobs'[i])]_vars
    /\ [](\A i \in JobIds : ntaken[i] <= 1)
    /\ [](nthreads <= 1 /\ Cardinality({i \in JobIds : _jobs[i] \in Active}) <= 1)
    /\ \A i \in JobIds :
          (\E k \in 1..Len(_q) : _q[k] = i) ~> (_jobs[i] \in Terminal)
\* ---------------------------------------------------------------------
\* tracking_coordinator.py: TrackingCoordinator, its three wrapper
\* trackers and its frame history.  twin is a TrackingCoordinator
\* constructed at the moment of the last reset and given the same frames.
\* ---------------------------------------------------------------------
\* tracking_coordinator.py line 35
max_history == 30

Kinds == {"person", "bat", "ball"}

KindConfig(kind, uk) ==
    IF kind = "person" THEN PersonConfig(uk)
    ELSE IF kind = "bat" THEN BatConfig(uk) ELSE BallConfig(uk)

\* PersonTracker / BatTrackerAdvanced / BallTrackerAdvanced as constructed:
\* an empty MultiObjectTracker and current_*_track = None
NewWrapper == [tracks |-> <<>>, frame_count |-> 0, next_id |-> 1, current |-> <<>>]

\* TrackingCoordinator.__init__; frame_history is kept by its length
NewCoordinator(uk) ==
    [use_kalman |-> uk, trackers |-> [k \in Kinds |-> NewWrapper], frame_history |-> 0]

\* the update of one wrapper tracker: the wrapper afterwards and its result
WrapperStep(w, input, c) ==
    Only({Only({[wrapper |-> [tracks |-> r.tracks, frame_count |-> w.frame_count + 1,
                              next_id |-> r.next_id, current |-> o.current],
                 result |-> o.result]
                : o \in {WrapperOutcome(r.returned, r.tracks, w.current, input, c.kind)}})
          : r \in {UpdateResult(WrapDetections(input, c.kind), w.tracks, w.next_id, c)}})

\* update_frame: the three trackers are updated, the frame is appended to
\* the history, which keeps max_history frames; person, bat and ball of the
\* returned dict
update_frame(co, in) ==
    Only({[coordinator |-> [co EXCEPT !.trackers = [k \in Kinds |-> step[k].wrapper],
                                      !.frame_history = Min2(@ + 1, max_history)],
           result |-> [k \in Kinds |-> step[k].result]]
          : step \in {[k \in Kinds |->
                          WrapperStep(co.trackers[k], in[k], KindConfig(k, co.use_kalman))]}})

\* MultiObjectTracker.reset on the tracker of a wrapper: the wrapper's
\* current_*_track is not touched
ResetInner(w) == [w EXCEPT !.tracks = <<>>, !.frame_count = 0, !.next_id = 1]

\* TrackingCoordinator.reset
CoordinatorReset(co) ==
    [co EXCEPT !.trackers = [k \in Kinds |-> ResetInner(co.trackers[k])],
               !.frame_history = 0]

NoResults == [k \in Kinds |-> <<>>]

\* the detections of one frame: None or a detection, for each kind
CoordInputs ==
    {[k \in Kinds |-> IF k = "person" THEN p ELSE IF k = "bat" THEN b ELSE l]
     : p \in WrapInputs,
       b \in {<<>>, <<[bbox |-> BoxA, confidence |-> 900, extra |-> "e1"]>>},
       l \in {<<>>, <<[bbox |-> BoxC, confidence |-> 600, extra |-> "e2"]>>}}

\* coordinator.update_frame(...), and the same call on the twin
UpdateFrame(in) ==
    /\ coord_calls < MaxCoordCalls
    /\ \E r \in {update_frame(coord, in)} :
          coord' = r.coordinator /\ coord_out' = r.result
    /\ \E r \in {update_frame(twin, in)} :
          twin' = r.coordinator /\ twin_out' = r.result
    /\ coord_calls' = coord_calls + 1
    /\ UNCHANGED coord_resets
    /\ UNCHANGED notCoord

\* coordinator.reset(); the twin is constructed anew
ResetCoordinator ==
    /\ coord_resets < MaxCoordResets
    /\ coord_calls > 0
    /\ coord' = CoordinatorReset(coord)
    /\ twin' = NewCoordinator(coord.use_kalman)
    /\ coord_out' = NoResults
    /\ twin_out' = NoResults
    /\ coord_resets' = coord_resets + 1
    /\ UNCHANGED coord_calls
    /\ UNCHANGED notCoord

InitCoord ==
    /\ cfg = PersonConfig(TRUE)
    /\ InitBase
    /\ InitExt("coord")
    /\ \E uk \in BOOLEAN : coord = NewCoordinator(uk) /\ twin = NewCoordinator(uk)
    /\ coord_out = NoResults
    /\ twin_out = NoResults
    /\ coord_calls = 0
    /\ coord_resets = 0

NextCoord == (\E in \in CoordInputs : UpdateFrame(in)) \/ ResetCoordinator

SpecCoord == InitCoord /\ [][NextCoord]_vars

\* C30: after TrackingCoordinator.reset() the coordinator behaves like a
\* newly constructed one: for every sequence of update_frame inputs after
\* the reset, the person, bat and ball results (track ids, placeholders and
\* None included) are those a new TrackingCoordinator returns for the same
\* inputs, so nothing tracked before the reset is returned afterwards.
C30_ResetLikeNew ==
    coord_resets > 0 => coord_out = twin_out

====
